---- MODULE Spec2Model ----
(***************************************************************************)
(* Document-assembly engine of AutoPDFBuilder3.                             *)
(*                                                                          *)
(* Spec      : the artifact cache (ObjectStorageService.tempPDFStorage),    *)
(*             its two operations called in any order while time passes.    *)
(* SpecRoutes: the same cache driven by the two routes' handlers.            *)
(* SpecFill  : PDFProcessor.fillPDFTemplate with mapFieldNameToDataKey.     *)
(***************************************************************************)
EXTENDS Integers, Sequences, FiniteSets, TLC

VARIABLES
    tempPDFStorage,  \* Map downloadKey -> [buffer, contentType, fileName, createdAt]
    clock,           \* the wall clock, in milliseconds (Date.now())
    ticks,           \* number of clock advances made so far (bounds the model)
    stores,          \* number of storeTempPDF calls made so far (bounds the model)
    pc,              \* per generate request: the await it is suspended at
    remaining,       \* per generate request: templates of validTemplates still to fill
    generatedDocs,   \* per generate request: the documents pushed so far
    fillOutcomes,    \* per generate request: how the fillPDFTemplate calls of the
                     \* loop settled so far, in the order of the calls
    combinedDownloadUrl, \* per generate request: key of the combined PDF, or NULL
    status,          \* per generate request: HTTP status sent (0: none yet)
    lastGet,         \* the last getTempPDF call since the last store or handler
                     \* stretch: key, result,
                     \* and whether the call before it asked for the same key
    justGot,         \* whether the last step was a getTempPDF call
    lastStore,       \* the last storeTempPDF call: its arguments, first clock read, key
    issued,          \* downloadKey -> the entry the last store that returned it put
    fpc,             \* fillPDFTemplate: where the call stands
    template,        \* fillPDFTemplate: its template argument
    enhancedData,    \* fillPDFTemplate: extractedData plus the three date keys
    confidenceScores,\* fillPDFTemplate: its confidenceScores argument
    fieldsProcessed, \* fillPDFTemplate: the counter of fields filled
    fieldsTotal,     \* fillPDFTemplate: the number of fields of the template
    fieldsLeft,      \* real template: form fields the loop has still to visit
    entriesLeft,     \* fallback: entries of getFieldMappings still to draw
    lastField,       \* real template: the field visited last and what was done to it
    lastLine,        \* fallback: the line drawn last
    fillResult,          \* what the call returned
    returned,        \* the modes in which a call has returned with a field processed
    repository,      \* fillPDFTemplate: what the template repository answered
    allFillable,     \* every field or entry visited so far had a mapped key, a
                     \* value and a kind that takes the value
    fieldFailed,     \* a write to some field visited so far threw
    uploadedFiles,   \* dealFilesStorage.get(id): the entries documentType -> file,
                     \* in the order Object.entries gives them
    uploadLog,       \* the document types of the files the upload route stored
                     \* so far, in the order of the uploads
    cpc,             \* createCombinedPDF: where the call stands
    selected,        \* createCombinedPDF: its selectedTemplates argument
    templatesLeft,   \* createCombinedPDF: templates the loop has still to visit
    outcomes,        \* createCombinedPDF: how the fillPDFTemplate calls of the
                     \* loop settled so far, in the order of the calls
    combinedPages,   \* createCombinedPDF: the pages of combinedDoc, in order
    documentsIncluded, \* createCombinedPDF: the manifest of documents
    supplied,        \* addImagesToPDF: the entries of uploadedFiles it loops over
    imagesLeft,      \* addImagesToPDF: entries the loop has still to visit
    imagesIncluded,  \* addImagesToPDF: addedImages, the manifest of images
    lpc,             \* image layout: where the placing of an image stands
    image,           \* image layout: width and height of the embedded image
    placed,          \* image layout: the rectangle handed to page.drawImage
    job,             \* the row of the deal processing job in the database
    jobFiles,        \* dealFilesStorage.get(id): document type -> file
    upc,             \* per upload request: where its handler stands
    snapshot,        \* per upload request: the job as its handler read it
    extraction,      \* per upload request: extractionResult
    updates,         \* per upload request: the argument of its
                     \* updateDealProcessingJob call
    ustatus,         \* per upload request: the status it responded with
    objects,         \* the deal's files in object storage, by the request
                     \* that saved them
    uploadedAssets,  \* the uploadedAssets column of the persistent deal
    apc,             \* per asset request: where its handler stands
    deal,            \* per asset request: the uploadedAssets of the deal as
                     \* its handler read it
    astatus,         \* per asset request: the status it responded with
    shown,           \* the client's uploadedFiles state: document type -> file
    inFlight,        \* the upload requests the client sent and has no answer to
    lastGenerate,    \* what the last generate request found: the files the
                     \* server appended, the files the client showed
    inventory,       \* the inventory service's lookup table: key -> item
    stats,           \* the inventory service's statistics
    lastLoad,        \* how the last loadInventoryCSV call ended
    lastLookup,      \* the last lookupByStock call and what it returned
    searchJob,       \* the vehicle search job as stored
    statusLog,       \* the statuses written to the job, with the writer
    spc,             \* per search request: where its handler is
    aiCalls,         \* per search request: the AI calls it has made
    sresponse        \* per search request: the status it responded with

cacheVars == <<tempPDFStorage, clock, ticks, stores, pc, remaining, generatedDocs, fillOutcomes,
               combinedDownloadUrl, status, lastGet, justGot, lastStore, issued>>

fillVars == <<fpc, template, enhancedData, confidenceScores, fieldsProcessed,
              fieldsTotal, fieldsLeft, entriesLeft, lastField, lastLine, fillResult,
              returned, repository, allFillable, fieldFailed>>

combineVars == <<uploadedFiles, uploadLog, cpc, selected, templatesLeft, outcomes,
                 combinedPages, documentsIncluded, supplied, imagesLeft,
                 imagesIncluded>>

(* The variables of the cache, the routes, the filler and the assembler. *)
oldVars == <<cacheVars, fillVars, combineVars>>

layoutVars == <<lpc, image, placed>>

uploadVars == <<job, jobFiles, upc, snapshot, extraction, updates, ustatus>>

assetVars == <<objects, uploadedAssets, apc, deal, astatus>>

clientVars == <<shown, inFlight, lastGenerate>>

inventoryVars == <<inventory, stats, lastLoad, lastLookup>>

searchVars == <<searchJob, statusLog, spc, aiCalls, sresponse>>

(* The variables of the other parts of the program. *)
moreVars == <<layoutVars, uploadVars, assetVars, clientVars, inventoryVars,
              searchVars>>

(* The variables a part leaves alone. *)
notLayout == <<oldVars, uploadVars, assetVars, clientVars, inventoryVars,
               searchVars>>
notUpload == <<oldVars, layoutVars, assetVars, clientVars, inventoryVars,
               searchVars>>
notAsset == <<oldVars, layoutVars, uploadVars, clientVars, inventoryVars,
              searchVars>>
notClient == <<oldVars, layoutVars, assetVars, inventoryVars, searchVars,
               job, upc, snapshot, extraction, updates, ustatus>>
notInventory == <<oldVars, layoutVars, uploadVars, assetVars, clientVars,
                  searchVars>>
notSearch == <<oldVars, layoutVars, uploadVars, assetVars, clientVars,
               inventoryVars>>

vars == <<oldVars, moreVars>>

----------------------------------------------------------------------------
(* Bounds of the model *)

MaxTicks == 2
MaxStores == 3
MaxFields == 2

(* Numbers of valid templates a generate request selects. *)
TemplateCounts == {0, 1, 2}

(* Files the upload route stores before the combined PDF is made. *)
UploadIds == {1, 2, 3}

(* Two generate requests in flight at once, numbered in order of arrival. *)
Requests == {1, 2}

(* Values of Math.random().toString(36).substring(2, 8). *)
Suffixes == {"k3x9qa", "0f7zzp"}

NULL == "null"

(* Clock advances between operations: scenario E's ten minutes, and the TTL. *)
TTL == 60 * 60 * 1000
TenMinutes == 10 * 60 * 1000
TickSteps == {1, TenMinutes, TTL}

----------------------------------------------------------------------------
(* The artifact cache: ObjectStorageService.tempPDFStorage *)

EmptyMap == [k \in {} |-> {}]

Put(m, key, value) ==
    [k \in DOMAIN m \cup {key} |-> IF k = key THEN value ELSE m[k]]

NotFound == [found |-> FALSE]
NoKey == <<>>
UnknownKey == <<0, 0>>
NoOp == [type |-> "none"]

PdfContentType == "application/pdf"

(* What a request hands to the cache: result.fileName and result.pdfBytes. *)
(* The bytes are the request's own; n is the number of templates still to   *)
(* fill when the document was made (0 for the combined PDF).                *)
PdfBytes(r, n) == <<r, n>>
FileName(n) == IF n = 0 THEN "Deal_Package_Customer_2026-11-06.pdf"
                        ELSE "Deal_Check_List_20261106.pdf"

(* Arguments of a storeTempPDF call made on the cache alone. *)
Documents == {[fileName |-> FileName(n), pdfBytes |-> PdfBytes(1, n)] : n \in 0..1}

(* cleanupTempStorage with a cutoff of one minute (a factor of 60 dropped). *)
cleanupTempStorage_oneMinute(storage, now) ==
    LET oneHourAgo == now - 60 * 1000
        keysToDelete == {k \in DOMAIN storage : storage[k].createdAt < oneHourAgo}
    IN  [k \in DOMAIN storage \ keysToDelete |-> storage[k]]

(* cleanupTempStorage that keeps what it should delete (comparison reversed). *)
cleanupTempStorage_reversed(storage, now) ==
    LET oneHourAgo == now - TTL
        keysToDelete == {k \in DOMAIN storage : storage[k].createdAt > oneHourAgo}
    IN  [k \in DOMAIN storage \ keysToDelete |-> storage[k]]

(* cleanupTempStorage: delete every entry created before now - 1 hour. *)
cleanupTempStorage(storage, now) ==
    LET oneHourAgo == now - TTL
        keysToDelete == {k \in DOMAIN storage : storage[k].createdAt < oneHourAgo}
    IN  [k \in DOMAIN storage \ keysToDelete |-> storage[k]]

(* `${Date.now()}_${Math.random().toString(36).substring(2, 8)}` *)
DownloadKey(now, suffix) == <<now, suffix>>

(* The value storeTempPDF puts into the map. *)
Entry(fileName, pdfBuffer, createdAt) ==
    [buffer |-> pdfBuffer, contentType |-> PdfContentType,
     fileName |-> fileName, createdAt |-> createdAt]

(* What a storeTempPDF call leaves behind besides the map: the call is taken *)
(* to be instantaneous, its three clock reads return the same millisecond.   *)
StoreBookkeeping(fileName, pdfBuffer, suffix) ==
    /\ stores < MaxStores
    /\ stores' = stores + 1
    /\ lastStore' = [key |-> DownloadKey(clock, suffix), fileName |-> fileName,
                     buffer |-> pdfBuffer, now |-> clock]
    /\ issued' = Put(issued, DownloadKey(clock, suffix),
                      Entry(fileName, pdfBuffer, clock))
    /\ lastGet' = NoOp
    /\ justGot' = FALSE
    /\ UNCHANGED clock

(* storeTempPDF whose insertion is lost: only the sweep reaches the map. *)
storeTempPDF_sweepOnly(fileName, pdfBuffer, suffix) ==
    /\ tempPDFStorage' = cleanupTempStorage(tempPDFStorage, clock)
    /\ StoreBookkeeping(fileName, pdfBuffer, suffix)

(* storeTempPDF that swaps its two arguments when it builds the entry. *)
storeTempPDF_swapped(fileName, pdfBuffer, suffix) ==
    /\ tempPDFStorage' = Put(cleanupTempStorage(tempPDFStorage, clock),
                             DownloadKey(clock, suffix),
                             Entry(pdfBuffer, fileName, clock))
    /\ StoreBookkeeping(fileName, pdfBuffer, suffix)

(* storeTempPDF that inserts without sweeping first. *)
storeTempPDF_noSweep(fileName, pdfBuffer, suffix) ==
    /\ tempPDFStorage' = Put(tempPDFStorage, DownloadKey(clock, suffix),
                             Entry(fileName, pdfBuffer, clock))
    /\ StoreBookkeeping(fileName, pdfBuffer, suffix)

(* storeTempPDF(fileName, pdfBuffer): sweep, make the key, insert, return it.  *)
(* suffix is the Math.random() part of the key; the key returned is            *)
(* lastStore'.key.                                                             *)
storeTempPDF(fileName, pdfBuffer, suffix) ==
    LET swept == cleanupTempStorage(tempPDFStorage, clock)
        downloadKey == DownloadKey(clock, suffix)
        entry == Entry(fileName, pdfBuffer, clock)
    IN  /\ tempPDFStorage' = Put(swept, downloadKey, entry)
        /\ StoreBookkeeping(fileName, pdfBuffer, suffix)

(* What getTempPDF returns for an entry: the entry without its createdAt. *)
Found(pdfData) ==
    [found |-> TRUE, buffer |-> pdfData.buffer,
     contentType |-> pdfData.contentType, fileName |-> pdfData.fileName]

(* What getTempPDF returns for a key: the entry found, or null. *)
Retrieved(storage, downloadKey) ==
    IF downloadKey \in DOMAIN storage THEN Found(storage[downloadKey]) ELSE NotFound

RecordGet(downloadKey, result) ==
    /\ lastGet' = [key |-> downloadKey, result |-> result,
                    again |-> lastGet # NoOp /\ lastGet.key = downloadKey]
    /\ justGot' = TRUE

(* getTempPDF that deletes the entry once it has been downloaded. *)
getTempPDF_deleteOnRead(downloadKey) ==
    /\ RecordGet(downloadKey, Retrieved(tempPDFStorage, downloadKey))
    /\ tempPDFStorage' =
          [k \in DOMAIN tempPDFStorage \ {downloadKey} |-> tempPDFStorage[k]]
    /\ UNCHANGED <<clock, stores, lastStore, issued>>

(* getTempPDF that treats an entry older than the TTL as gone. *)
getTempPDF_checkExpiry(downloadKey) ==
    /\ RecordGet(downloadKey,
                 IF /\ downloadKey \in DOMAIN tempPDFStorage
                    /\ tempPDFStorage[downloadKey].createdAt < clock - TTL
                 THEN NotFound
                 ELSE Retrieved(tempPDFStorage, downloadKey))
    /\ UNCHANGED <<tempPDFStorage, clock, stores, lastStore, issued>>

(* getTempPDF(downloadKey): look the key up; never delete on retrieval. *)
getTempPDF(downloadKey) ==
    /\ RecordGet(downloadKey, Retrieved(tempPDFStorage, downloadKey))
    /\ UNCHANGED <<tempPDFStorage, clock, stores, lastStore, issued>>

----------------------------------------------------------------------------
(* The routes that use the cache.  A handler runs without interruption from  *)
(* one await to the next; each action below is one such stretch.             *)

reqVars == <<pc, remaining, generatedDocs, fillOutcomes, combinedDownloadUrl, status>>
storeVars == <<tempPDFStorage, clock, stores, lastStore, issued>>

(* A stretch of a handler that makes no cache call. *)
NoGet == justGot' = FALSE /\ lastGet' = NoOp

Respond(r, code) ==
    /\ status' = [status EXCEPT ![r] = code]
    /\ pc' = [pc EXCEPT ![r] = "done"]

(* POST /api/deals/:id/generate arrives and awaits storage.getDealProcessingJob. *)
GenerateArrives(r) ==
    /\ NoGet
    /\ pc[r] = "idle"
    /\ \A q \in Requests : q < r => pc[q] # "idle"
    /\ pc' = [pc EXCEPT ![r] = "awaitJob"]
    /\ UNCHANGED <<remaining, generatedDocs, fillOutcomes, combinedDownloadUrl, status,
                   storeVars, ticks, fillVars, combineVars, moreVars>>

(* The job lookup settles: 404 without a job, 500 on an error, else list templates. *)
JobResolved(r) ==
    /\ NoGet
    /\ pc[r] = "awaitJob"
    /\ \E outcome \in {"found", "missing", "error"} :
          CASE outcome = "found" ->
                 /\ pc' = [pc EXCEPT ![r] = "awaitTemplates"]
                 /\ UNCHANGED status
            [] outcome = "missing" -> Respond(r, 404)
            [] outcome = "error" -> Respond(r, 500)
    /\ UNCHANGED <<remaining, generatedDocs, fillOutcomes, combinedDownloadUrl, storeVars, ticks, fillVars, combineVars, moreVars>>

(* listPDFTemplates settles: 400 when no selected template is valid, else the *)
(* loop starts with the first fillPDFTemplate call.                           *)
TemplatesResolved(r) ==
    /\ NoGet
    /\ pc[r] = "awaitTemplates"
    /\ \E n \in TemplateCounts, failed \in BOOLEAN :
          IF failed THEN /\ Respond(r, 500)
                         /\ UNCHANGED remaining
          ELSE IF n = 0 THEN /\ Respond(r, 400)
                             /\ UNCHANGED remaining
          ELSE /\ remaining' = [remaining EXCEPT ![r] = n]
               /\ pc' = [pc EXCEPT ![r] = "awaitFill"]
               /\ UNCHANGED status
    /\ UNCHANGED <<generatedDocs, fillOutcomes, combinedDownloadUrl, storeVars, ticks, fillVars, combineVars, moreVars>>

AfterTemplate(r, outcome) ==
    /\ fillOutcomes' = [fillOutcomes EXCEPT ![r] = Append(@, outcome)]
    /\ remaining' = [remaining EXCEPT ![r] = @ - 1]
    /\ pc' = [pc EXCEPT ![r] = IF remaining[r] = 1 THEN "awaitUpdate" ELSE "awaitFill"]

(* fillPDFTemplate fulfils: store the PDF, push the document, go on. *)
FillResolved(r) ==
    /\ pc[r] = "awaitFill"
    /\ \E suffix \in Suffixes :
          storeTempPDF(FileName(remaining[r]), PdfBytes(r, remaining[r]), suffix)
    /\ generatedDocs' = [generatedDocs EXCEPT ![r] =
                             Append(@, [template |-> remaining[r],
                                        downloadUrl |-> lastStore'.key])]
    /\ AfterTemplate(r, "fulfilled")
    /\ UNCHANGED <<combinedDownloadUrl, status, ticks, fillVars, combineVars, moreVars>>

(* fillPDFTemplate rejects: logged, the loop goes on with the next template. *)
FillRejected(r) ==
    /\ NoGet
    /\ pc[r] = "awaitFill"
    /\ AfterTemplate(r, "rejected")
    /\ UNCHANGED <<generatedDocs, combinedDownloadUrl, status, storeVars, ticks,
                   fillVars, combineVars, moreVars>>

(* updateDealProcessingJob settles; on success createCombinedPDF is called. *)
UpdateResolved(r) ==
    /\ NoGet
    /\ pc[r] = "awaitUpdate"
    /\ \E failed \in BOOLEAN :
          IF failed THEN Respond(r, 500)
          ELSE /\ pc' = [pc EXCEPT ![r] = "awaitCombined"]
               /\ UNCHANGED status
    /\ UNCHANGED <<remaining, generatedDocs, fillOutcomes, combinedDownloadUrl, storeVars, ticks, fillVars, combineVars, moreVars>>

(* createCombinedPDF fulfils: store the combined PDF and respond. *)
CombinedResolved(r) ==
    /\ pc[r] = "awaitCombined"
    /\ \E suffix \in Suffixes :
          storeTempPDF(FileName(0), PdfBytes(r, 0), suffix)
    /\ combinedDownloadUrl' = [combinedDownloadUrl EXCEPT ![r] = lastStore'.key]
    /\ Respond(r, 200)
    /\ UNCHANGED <<remaining, generatedDocs, fillOutcomes, ticks, fillVars, combineVars, moreVars>>

(* createCombinedPDF rejects: logged, the response carries no combined URL. *)
CombinedRejected(r) ==
    /\ NoGet
    /\ pc[r] = "awaitCombined"
    /\ Respond(r, 200)
    /\ UNCHANGED <<remaining, generatedDocs, fillOutcomes, combinedDownloadUrl, storeVars, ticks, fillVars, combineVars, moreVars>>

(* GET /api/download/:downloadKey: the whole handler is synchronous. *)
Download(downloadKey) ==
    /\ getTempPDF(downloadKey)
    /\ UNCHANGED <<reqVars, ticks, fillVars, combineVars, moreVars>>

(* Time passes between two requests' steps. *)
Tick(d) ==
    /\ ticks < MaxTicks
    /\ ticks' = ticks + 1
    /\ clock' = clock + d
    /\ justGot' = FALSE
    /\ UNCHANGED <<tempPDFStorage, stores, lastStore, issued, lastGet, reqVars, fillVars, combineVars, moreVars>>

(* Between the requests' steps the server is left alone once, for longer  *)
(* than the TTL.                                                          *)
LongPause ==
    /\ ticks = 0
    /\ Tick(TTL + TenMinutes)

(* A caller stores a document. *)
Store ==
    /\ \E doc \in Documents, suffix \in Suffixes :
          storeTempPDF(doc.fileName, doc.pdfBytes, suffix)
    /\ UNCHANGED <<reqVars, ticks, fillVars, combineVars, moreVars>>

----------------------------------------------------------------------------
(* Strings the code takes apart are sequences of one-character strings.     *)

(* The characters the pattern [^a-z0-9] leaves in place. *)
AlphaNumeric ==
    {"a", "b", "c", "d", "e", "f", "g", "h", "i", "j", "k", "l", "m",
     "n", "o", "p", "q", "r", "s", "t", "u", "v", "w", "x", "y", "z",
     "0", "1", "2", "3", "4", "5", "6", "7", "8", "9"}

IsAlphaNumeric(c) == c \in AlphaNumeric

Digits == <<"0", "1", "2", "3", "4", "5", "6", "7", "8", "9">>

(* The upper-case letters and their lower-case forms. *)
LowerCaseOf ==
    [A |-> "a", B |-> "b", C |-> "c", D |-> "d", E |-> "e", F |-> "f", G |-> "g",
     H |-> "h", I |-> "i", J |-> "j", K |-> "k", L |-> "l", M |-> "m", N |-> "n",
     O |-> "o", P |-> "p", Q |-> "q", R |-> "r", S |-> "s", T |-> "t", U |-> "u",
     V |-> "v", W |-> "w", X |-> "x", Y |-> "y", Z |-> "z"]

(* String.prototype.toLowerCase, character by character. *)
ToLowerCaseChar(c) == IF c \in DOMAIN LowerCaseOf THEN LowerCaseOf[c] ELSE c

ToLowerCase(str) == [i \in 1..Len(str) |-> ToLowerCaseChar(str[i])]

(* The characters of a string put together again. *)
RECURSIVE Join(_)
Join(str) == IF str = <<>> THEN "" ELSE Head(str) \o Join(Tail(str))

(* Field names of the templates' forms. *)
DriversLicenseNumber == <<"D", "r", "i", "v", "e", "r", "s", "L", "i", "c", "e", "n", "s", "e", "N", "u", "m", "b", "e", "r">>
DrivingLicenseNumber == <<"D", "r", "i", "v", "i", "n", "g", " ", "L", "i", "c", "e", "n", "s", "e", " ", "N", "u", "m", "b", "e", "r">>
licenseNumberName == <<"l", "i", "c", "e", "n", "s", "e", "N", "u", "m", "b", "e", "r">>
First_Name == <<"F", "i", "r", "s", "t", "_", "N", "a", "m", "e">>
FIRSTNAME == <<"F", "I", "R", "S", "T", "N", "A", "M", "E">>
VIN == <<"V", "I", "N">>
InsuranceName == <<"I", "n", "s", "u", "r", "a", "n", "c", "e">>
DateName == <<"D", "a", "t", "e">>
RandomUnmappedField == <<"R", "a", "n", "d", "o", "m", "U", "n", "m", "a", "p", "p", "e", "d", "F", "i", "e", "l", "d">>
constructorName == <<"c", "o", "n", "s", "t", "r", "u", "c", "t", "o", "r">>

RawNames == {DriversLicenseNumber,
             DrivingLicenseNumber,
             licenseNumberName,
             First_Name,
             FIRSTNAME,
             VIN,
             InsuranceName,
             DateName,
             RandomUnmappedField,
             constructorName}

(* Values of the data record. *)
D1234567 == <<"D", "1", "2", "3", "4", "5", "6", "7">>
Ada == <<"A", "d", "a">>
Yes == <<"Y", "e", "s">>
XYZMutual == <<"X", "Y", "Z", " ", "M", "u", "t", "u", "a", "l">>
EmptyString == <<>>

----------------------------------------------------------------------------
(* The field mapper: PDFProcessor.mapFieldNameToDataKey *)

(* The alias table, an object literal: alias -> canonical data key. *)
mappings ==
    [firstname |-> "firstName",
     lastname |-> "lastName",
     customerfirstname |-> "firstName",
     customerlastname |-> "lastName",
     buyerfirstname |-> "firstName",
     buyerlastname |-> "lastName",
     address |-> "address",
     customeraddress |-> "address",
     buyeraddress |-> "address",
     licenseNumber |-> "licenseNumber",
     drivinglicensenumber |-> "licenseNumber",
     dllicense |-> "licenseNumber",
     licenseexpiration |-> "licenseExpiration",
     licenseexp |-> "licenseExpiration",
     insurancecompany |-> "insuranceCompany",
     insurance |-> "insuranceCompany",
     insurer |-> "insuranceCompany",
     vin |-> "newCarVin",
     vehiclevin |-> "newCarVin",
     newcarvin |-> "newCarVin",
     vehicleidentificationnumber |-> "newCarVin",
     odometer |-> "newCarOdometer",
     mileage |-> "newCarOdometer",
     newcarodometer |-> "newCarOdometer",
     vehiclemileage |-> "newCarOdometer",
     tradeinvin |-> "tradeInVin",
     tradevin |-> "tradeInVin",
     tradeinodometer |-> "tradeInOdometer",
     tradeodometer |-> "tradeInOdometer",
     tradeinmileage |-> "tradeInOdometer",
     tradeinyear |-> "tradeInYear",
     tradeyear |-> "tradeInYear",
     tradeinmake |-> "tradeInMake",
     trademake |-> "tradeInMake",
     tradeinmodel |-> "tradeInModel",
     trademodel |-> "tradeInModel"]

(* The aliases of the table as they are written, character by character. *)
AliasKeys ==
    {<<"f", "i", "r", "s", "t", "n", "a", "m", "e">>,
     <<"l", "a", "s", "t", "n", "a", "m", "e">>,
     <<"c", "u", "s", "t", "o", "m", "e", "r", "f", "i", "r", "s", "t", "n", "a", "m", "e">>,
     <<"c", "u", "s", "t", "o", "m", "e", "r", "l", "a", "s", "t", "n", "a", "m", "e">>,
     <<"b", "u", "y", "e", "r", "f", "i", "r", "s", "t", "n", "a", "m", "e">>,
     <<"b", "u", "y", "e", "r", "l", "a", "s", "t", "n", "a", "m", "e">>,
     <<"a", "d", "d", "r", "e", "s", "s">>,
     <<"c", "u", "s", "t", "o", "m", "e", "r", "a", "d", "d", "r", "e", "s", "s">>,
     <<"b", "u", "y", "e", "r", "a", "d", "d", "r", "e", "s", "s">>,
     <<"l", "i", "c", "e", "n", "s", "e", "N", "u", "m", "b", "e", "r">>,
     <<"d", "r", "i", "v", "i", "n", "g", "l", "i", "c", "e", "n", "s", "e", "n", "u", "m", "b", "e", "r">>,
     <<"d", "l", "l", "i", "c", "e", "n", "s", "e">>,
     <<"l", "i", "c", "e", "n", "s", "e", "e", "x", "p", "i", "r", "a", "t", "i", "o", "n">>,
     <<"l", "i", "c", "e", "n", "s", "e", "e", "x", "p">>,
     <<"i", "n", "s", "u", "r", "a", "n", "c", "e", "c", "o", "m", "p", "a", "n", "y">>,
     <<"i", "n", "s", "u", "r", "a", "n", "c", "e">>,
     <<"i", "n", "s", "u", "r", "e", "r">>,
     <<"v", "i", "n">>,
     <<"v", "e", "h", "i", "c", "l", "e", "v", "i", "n">>,
     <<"n", "e", "w", "c", "a", "r", "v", "i", "n">>,
     <<"v", "e", "h", "i", "c", "l", "e", "i", "d", "e", "n", "t", "i", "f", "i", "c", "a", "t", "i", "o", "n", "n", "u", "m", "b", "e", "r">>,
     <<"o", "d", "o", "m", "e", "t", "e", "r">>,
     <<"m", "i", "l", "e", "a", "g", "e">>,
     <<"n", "e", "w", "c", "a", "r", "o", "d", "o", "m", "e", "t", "e", "r">>,
     <<"v", "e", "h", "i", "c", "l", "e", "m", "i", "l", "e", "a", "g", "e">>,
     <<"t", "r", "a", "d", "e", "i", "n", "v", "i", "n">>,
     <<"t", "r", "a", "d", "e", "v", "i", "n">>,
     <<"t", "r", "a", "d", "e", "i", "n", "o", "d", "o", "m", "e", "t", "e", "r">>,
     <<"t", "r", "a", "d", "e", "o", "d", "o", "m", "e", "t", "e", "r">>,
     <<"t", "r", "a", "d", "e", "i", "n", "m", "i", "l", "e", "a", "g", "e">>,
     <<"t", "r", "a", "d", "e", "i", "n", "y", "e", "a", "r">>,
     <<"t", "r", "a", "d", "e", "y", "e", "a", "r">>,
     <<"t", "r", "a", "d", "e", "i", "n", "m", "a", "k", "e">>,
     <<"t", "r", "a", "d", "e", "m", "a", "k", "e">>,
     <<"t", "r", "a", "d", "e", "i", "n", "m", "o", "d", "e", "l">>,
     <<"t", "r", "a", "d", "e", "m", "o", "d", "e", "l">>}

(* What every object literal inherits from Object.prototype; a function is  *)
(* written as the string it converts to.                                    *)
ObjectPrototype ==
    [constructor |-> "function Object() { [native code] }",
     toString |-> "function toString() { [native code] }",
     valueOf |-> "function valueOf() { [native code] }",
     hasOwnProperty |-> "function hasOwnProperty() { [native code] }"]

(* fieldName.toLowerCase().replace(/[^a-z0-9]/g, '') *)
Normalize(fieldName) == Join(SelectSeq(ToLowerCase(fieldName), IsAlphaNumeric))

(* The normalized forms of the aliases of the table. *)
NormalizedAlias == [key \in AliasKeys |-> Normalize(key)]

(* mapFieldNameToDataKey(fieldName, template): mappings[normalized] || null. *)
(* The property read finds own properties first, inherited ones after.       *)
mapFieldNameToDataKey(fieldName, templateId) ==
    LET normalizedFieldName == Normalize(fieldName)
    IN  IF normalizedFieldName \in DOMAIN mappings
        THEN mappings[normalizedFieldName]
        ELSE IF normalizedFieldName \in DOMAIN ObjectPrototype
        THEN ObjectPrototype[normalizedFieldName]
        ELSE NULL

----------------------------------------------------------------------------
(* The template filler: PDFProcessor.fillPDFTemplate *)

(* new Date(), as getFullYear(), getMonth(), getDate() give it. *)
Today == [fullYear |-> 2026, month |-> 10, date |-> 6]

(* String(n).padStart(2, '0') and String(n).slice(-2) of a number below 100. *)
TwoDigits(n) == <<Digits[(n \div 10) + 1], Digits[(n % 10) + 1]>>

(* formatDateForPDF(date): MM/DD/YY *)
formatDateForPDF(date) ==
    TwoDigits(date.month + 1) \o <<"/">> \o TwoDigits(date.date) \o <<"/">>
        \o TwoDigits(date.fullYear % 100)

(* Data records handed to fillPDFTemplate. *)
NoData == EmptyMap
LicenseOnly == [licenseNumber |-> D1234567]
PartialData == [firstName |-> Ada, licenseNumber |-> D1234567,
                insuranceCompany |-> EmptyString, newCarVin |-> Yes]
CompleteData ==
    [firstName |-> Ada, lastName |-> Ada, address |-> Ada,
     licenseNumber |-> D1234567, licenseExpiration |-> Yes,
     insuranceCompany |-> XYZMutual, newCarVin |-> D1234567,
     newCarOdometer |-> Yes, tradeInVin |-> D1234567, tradeInOdometer |-> Yes,
     tradeInYear |-> Yes, tradeInMake |-> Ada, tradeInModel |-> Ada]

DataRecords == {NoData, LicenseOnly, PartialData, CompleteData}

ConfidenceRecords == {EmptyMap, [insuranceCompany |-> "high"]}

Templates == {"deal-check", "trade-agreement", "we-owe", "custom-form"}

(* The working copy of the data record: three date keys added. *)
EnhancedData(extractedData) ==
    LET formattedDate == formatDateForPDF(Today)
    IN  Put(Put(Put(extractedData, "currentDate", formattedDate),
                "todaysDate", formattedDate),
            "date", formattedDate)

(* JavaScript's truth value of enhancedData[dataKey]: a missing key and the *)
(* empty string are falsy.                                                  *)
HasValue(data, dataKey) ==
    /\ dataKey \in DOMAIN data
    /\ data[dataKey] # <<>>

(* Form fields a template may hold: pdf-lib's class name, the options of a  *)
(* radio group, and whether pdf-lib throws when the field is written.       *)
FieldKinds == {"PDFTextField", "PDFCheckBox", "PDFRadioGroup", "PDFDropdown"}

OptionLists == {{}, {Yes, D1234567}}

Fields ==
    {f \in [name : RawNames, kind : FieldKinds, options : OptionLists,
            throws : BOOLEAN] :
        /\ f.kind # "PDFRadioGroup" => f.options = {}
        /\ f.kind \in {"PDFRadioGroup", "PDFDropdown"} => ~f.throws}

NoField == [kind |-> "none"]
NoLine == ""
NoResult == [mode |-> "none"]

CheckedValues == {"true", "yes", "1", "checked", "x"}

(* The try block with fieldsProcessed++ ahead of the pdf-lib call. *)
FillAttempt_countFirst(field, value) ==
    IF field.kind = "PDFDropdown"
    THEN [call |-> "none", arg |-> <<>>, counted |-> FALSE]
    ELSE IF field.throws
    THEN [call |-> "threw", arg |-> <<>>, counted |-> TRUE]
    ELSE IF field.kind = "PDFTextField"
    THEN [call |-> "setText", arg |-> value, counted |-> TRUE]
    ELSE IF field.kind = "PDFCheckBox"
    THEN [call |-> IF Join(ToLowerCase(value)) \in CheckedValues
                   THEN "check" ELSE "uncheck",
          arg |-> <<>>, counted |-> TRUE]
    ELSE IF value \in field.options
    THEN [call |-> "select", arg |-> value, counted |-> TRUE]
    ELSE [call |-> "none", arg |-> <<>>, counted |-> FALSE]

(* The try block whose checkbox test compares the value as it is written. *)
FillAttempt_caseSensitive(field, value) ==
    IF field.kind = "PDFDropdown"
    THEN [call |-> "none", arg |-> <<>>, counted |-> FALSE]
    ELSE IF field.throws
    THEN [call |-> "threw", arg |-> <<>>, counted |-> FALSE]
    ELSE IF field.kind = "PDFTextField"
    THEN [call |-> "setText", arg |-> value, counted |-> TRUE]
    ELSE IF field.kind = "PDFCheckBox"
    THEN [call |-> IF Join(value) \in CheckedValues
                   THEN "check" ELSE "uncheck",
          arg |-> <<>>, counted |-> TRUE]
    ELSE IF value \in field.options
    THEN [call |-> "select", arg |-> value, counted |-> TRUE]
    ELSE [call |-> "none", arg |-> <<>>, counted |-> FALSE]

(* The body of the try block for one field: the pdf-lib call made, its      *)
(* argument, and whether fieldsProcessed++ was reached.                     *)
FillAttempt(field, value) ==
    IF field.kind = "PDFDropdown"
    THEN [call |-> "none", arg |-> <<>>, counted |-> FALSE]
    ELSE IF field.throws
    THEN [call |-> "threw", arg |-> <<>>, counted |-> FALSE]
    ELSE IF field.kind = "PDFTextField"
    THEN [call |-> "setText", arg |-> value, counted |-> TRUE]
    ELSE IF field.kind = "PDFCheckBox"
    THEN [call |-> IF Join(ToLowerCase(value)) \in CheckedValues
                   THEN "check" ELSE "uncheck",
          arg |-> <<>>, counted |-> TRUE]
    ELSE IF value \in field.options
    THEN [call |-> "select", arg |-> value, counted |-> TRUE]
    ELSE [call |-> "none", arg |-> <<>>, counted |-> FALSE]

(* mapFieldNameToDataKey is pure: its results for the field names and the   *)
(* templates of the model.                                                  *)
MappedDataKey ==
    [name \in RawNames, templateId \in Templates |->
        mapFieldNameToDataKey(name, templateId)]

(* The normalized forms of the field names of the model. *)
NormalizedName == [name \in RawNames |-> Normalize(name)]

(* A field that has an alias in the table, a value for its canonical key in *)
(* the data, and a kind that takes the value: text and check box take any   *)
(* value, a radio group one of its options.                                 *)
Fillable(field, data) ==
    LET n == NormalizedName[field.name]
    IN  /\ n \in DOMAIN mappings
        /\ HasValue(data, mappings[n])
        /\ \/ field.kind \in {"PDFTextField", "PDFCheckBox"}
           \/ /\ field.kind = "PDFRadioGroup"
              /\ data[mappings[n]] \in field.options

(* The loop body that writes the empty string when the value is missing. *)
FieldOutcome_writeEmpty(field, data, templateId, scores) ==
    LET mappedDataKey == MappedDataKey[field.name, templateId]
        attempt == IF mappedDataKey # NULL
                   THEN FillAttempt(field, IF HasValue(data, mappedDataKey)
                                           THEN data[mappedDataKey] ELSE <<>>)
                   ELSE [call |-> "none", arg |-> <<>>, counted |-> FALSE]
    IN  [field |-> field, mappedDataKey |-> mappedDataKey,
         call |-> attempt.call, arg |-> attempt.arg, counted |-> attempt.counted]

(* The loop body that fills a field only from a value of high confidence. *)
FieldOutcome_highConfidenceOnly(field, data, templateId, scores) ==
    LET mappedDataKey == MappedDataKey[field.name, templateId]
        attempt == IF /\ mappedDataKey # NULL
                      /\ HasValue(data, mappedDataKey)
                      /\ mappedDataKey \in DOMAIN scores
                      /\ scores[mappedDataKey] = "high"
                   THEN FillAttempt(field, data[mappedDataKey])
                   ELSE [call |-> "none", arg |-> <<>>, counted |-> FALSE]
    IN  [field |-> field, mappedDataKey |-> mappedDataKey,
         call |-> attempt.call, arg |-> attempt.arg, counted |-> attempt.counted]

(* One turn of the loop over form.getFields(): the key the field's name is *)
(* mapped to, and what is done to the field.  confidenceScores (scores) is *)
(* in scope of the loop and not read.                                      *)
FieldOutcome(field, data, templateId, scores) ==
    LET mappedDataKey == MappedDataKey[field.name, templateId]
        attempt == IF mappedDataKey # NULL /\ HasValue(data, mappedDataKey)
                   THEN FillAttempt(field, data[mappedDataKey])
                   ELSE [call |-> "none", arg |-> <<>>, counted |-> FALSE]
    IN  [field |-> field, mappedDataKey |-> mappedDataKey,
         call |-> attempt.call, arg |-> attempt.arg, counted |-> attempt.counted]

(* getFieldMappings(template), in the order Object.entries gives. *)
baseMappings ==
    << <<"Customer First Name", "firstName">>,
       <<"Customer Last Name", "lastName">>,
       <<"Customer Address", "address">>,
       <<"Driver License Number", "licenseNumber">>,
       <<"License Expiration", "licenseExpiration">>,
       <<"Insurance Company", "insuranceCompany">> >>

vehicleMappings ==
    << <<"New Vehicle VIN", "newCarVin">>,
       <<"New Vehicle Odometer", "newCarOdometer">> >>

tradeInMappings ==
    << <<"Trade-in VIN", "tradeInVin">>,
       <<"Trade-in Odometer", "tradeInOdometer">>,
       <<"Trade-in Year", "tradeInYear">>,
       <<"Trade-in Make", "tradeInMake">>,
       <<"Trade-in Model", "tradeInModel">> >>

getFieldMappings(templateId) ==
    CASE templateId \in {"deal-check", "delivery-receipt", "bill-of-sale"} ->
             baseMappings \o vehicleMappings
      [] templateId = "trade-agreement" ->
             baseMappings \o vehicleMappings \o tradeInMappings
      [] templateId = "odometer-disclosure" -> baseMappings \o vehicleMappings
      [] templateId = "we-owe" -> baseMappings
      [] OTHER -> baseMappings

(* Fallback fieldsTotal that counts the base mappings only. *)
FallbackFieldsTotal_baseOnly(templateId) == Len(baseMappings)

(* Object.keys(fieldMappings).length *)
FallbackFieldsTotal(templateId) == Len(getFieldMappings(templateId))

(* The line the fallback document shows for one entry. *)
FallbackLine(fieldName, dataKey, data, scores) ==
    LET confidence == IF dataKey \in DOMAIN scores THEN scores[dataKey] ELSE "low"
    IN  IF HasValue(data, dataKey)
        THEN fieldName \o ": " \o Join(data[dataKey])
                 \o " (" \o confidence \o " confidence)"
        ELSE fieldName \o ": [NOT PROVIDED]"

(* fillPDFTemplate(template, extractedData, confidenceScores) is called and *)
(* awaits objectStorageService.downloadPDFTemplate.                          *)
FillCalled(templateId, extractedData, scores) ==
    /\ fpc \in {"idle", "returned", "rejected"}
    /\ fpc' = "awaitDownload"
    /\ template' = templateId
    /\ enhancedData' = EnhancedData(extractedData)
    /\ confidenceScores' = scores
    /\ fieldsProcessed' = 0
    /\ fieldsTotal' = 0
    /\ fieldsLeft' = 0
    /\ entriesLeft' = <<>>
    /\ lastField' = NoField
    /\ lastLine' = NoLine
    /\ fillResult' = NoResult
    /\ repository' = "pending"
    /\ allFillable' = TRUE
    /\ fieldFailed' = FALSE
    /\ UNCHANGED <<returned, cacheVars, combineVars, moreVars>>

(* searchPDFTemplate rejects (file.exists() fails): downloadPDFTemplate and *)
(* with it fillPDFTemplate reject.                                          *)
SearchRejected ==
    /\ fpc = "awaitDownload"
    /\ fpc' = "rejected"
    /\ repository' = "exists-error"
    /\ UNCHANGED <<template, enhancedData, confidenceScores, fieldsProcessed,
                   fieldsTotal, fieldsLeft, entriesLeft, lastField, lastLine,
                   fillResult, returned, allFillable, fieldFailed, cacheVars, combineVars, moreVars>>

(* The template is in storage and file.download() fulfils: templateBuffer   *)
(* is the template's bytes, PDFDocument.load is awaited.                    *)
TemplateFound ==
    /\ fpc = "awaitDownload"
    /\ fpc' = "awaitLoad"
    /\ repository' = "bytes"
    /\ UNCHANGED <<template, enhancedData, confidenceScores, fieldsProcessed,
                   fieldsTotal, fieldsLeft, entriesLeft, lastField, lastLine,
                   fillResult, returned, allFillable, fieldFailed, cacheVars, combineVars, moreVars>>

(* templateBuffer is null: a basic document is created and the entries of   *)
(* getFieldMappings are to be drawn.                                        *)
FallbackStarted ==
    /\ fpc = "awaitDownload"
    /\ fpc' = "draw"
    /\ fieldsTotal' = FallbackFieldsTotal(template)
    /\ entriesLeft' = getFieldMappings(template)
    /\ UNCHANGED <<template, enhancedData, confidenceScores, fieldsProcessed,
                   fieldsLeft, lastField, lastLine, fillResult, returned,
                   allFillable, fieldFailed, cacheVars, combineVars, moreVars>>

(* The template is not in storage: searchPDFTemplate returns null, and so   *)
(* does downloadPDFTemplate.                                                *)
TemplateMissing ==
    /\ repository' = "not-found"
    /\ FallbackStarted

(* The template is in storage and file.download() rejects: the error is     *)
(* caught and downloadPDFTemplate returns null.                             *)
DownloadFailed ==
    /\ repository' = "download-error"
    /\ FallbackStarted

(* PDFDocument.load fulfils with a form of n fields. *)
LoadResolved(n) ==
    /\ fpc = "awaitLoad"
    /\ fpc' = "fill"
    /\ fieldsTotal' = n
    /\ fieldsLeft' = n
    /\ UNCHANGED <<template, enhancedData, confidenceScores, fieldsProcessed,
                   entriesLeft, lastField, lastLine, fillResult, returned,
                   repository, allFillable, fieldFailed, cacheVars, combineVars, moreVars>>

(* PDFDocument.load rejects: so does fillPDFTemplate. *)
LoadRejected ==
    /\ fpc = "awaitLoad"
    /\ fpc' = "rejected"
    /\ UNCHANGED <<template, enhancedData, confidenceScores, fieldsProcessed,
                   fieldsTotal, fieldsLeft, entriesLeft, lastField, lastLine,
                   fillResult, returned, repository, allFillable, fieldFailed,
                   cacheVars, combineVars, moreVars>>

(* The loop over the form's fields that gives up when a write throws. *)
FillField_abortOnThrow(field) ==
    /\ fpc = "fill"
    /\ fieldsLeft > 0
    /\ LET outcome == FieldOutcome(field, enhancedData, template, confidenceScores)
       IN  /\ fieldsProcessed' = IF outcome.counted THEN fieldsProcessed + 1
                                                    ELSE fieldsProcessed
           /\ lastField' = outcome
           /\ fieldFailed' = (fieldFailed \/ outcome.call = "threw")
           /\ fpc' = IF outcome.call = "threw" THEN "rejected" ELSE fpc
    /\ allFillable' = (allFillable /\ Fillable(field, enhancedData))
    /\ fieldsLeft' = fieldsLeft - 1
    /\ UNCHANGED <<template, enhancedData, confidenceScores, fieldsTotal,
                   entriesLeft, lastLine, fillResult, returned, repository,
                   cacheVars, combineVars, moreVars>>

(* The loop over the form's fields visits the next field. *)
FillField(field) ==
    /\ fpc = "fill"
    /\ fieldsLeft > 0
    /\ LET outcome == FieldOutcome(field, enhancedData, template, confidenceScores)
       IN  /\ fieldsProcessed' = IF outcome.counted THEN fieldsProcessed + 1
                                                    ELSE fieldsProcessed
           /\ lastField' = outcome
           /\ fieldFailed' = (fieldFailed \/ outcome.call = "threw")
    /\ allFillable' = (allFillable /\ Fillable(field, enhancedData))
    /\ fieldsLeft' = fieldsLeft - 1
    /\ UNCHANGED <<fpc, template, enhancedData, confidenceScores, fieldsTotal,
                   entriesLeft, lastLine, fillResult, returned, repository,
                   cacheVars, combineVars, moreVars>>

(* The fallback loop draws the next entry of getFieldMappings. *)
DrawLine ==
    /\ fpc = "draw"
    /\ entriesLeft # <<>>
    /\ LET fieldName == Head(entriesLeft)[1]
           dataKey == Head(entriesLeft)[2]
       IN  /\ fieldsProcessed' = IF HasValue(enhancedData, dataKey)
                                 THEN fieldsProcessed + 1 ELSE fieldsProcessed
           /\ lastLine' = FallbackLine(fieldName, dataKey, enhancedData,
                                       confidenceScores)
    /\ allFillable' = (allFillable /\ HasValue(enhancedData, Head(entriesLeft)[2]))
    /\ entriesLeft' = Tail(entriesLeft)
    /\ UNCHANGED <<fpc, template, enhancedData, confidenceScores, fieldsTotal,
                   fieldsLeft, lastField, fillResult, returned, repository,
                   fieldFailed, cacheVars, combineVars, moreVars>>

(* The loop is over, pdfDoc.save() fulfils, the result is returned. *)
SaveResolved ==
    /\ \/ fpc = "fill" /\ fieldsLeft = 0
       \/ fpc = "draw" /\ entriesLeft = <<>>
    /\ fpc' = "returned"
    /\ fillResult' = [mode |-> IF fpc = "fill" THEN "real" ELSE "fallback",
                  fieldsProcessed |-> fieldsProcessed,
                  fieldsTotal |-> fieldsTotal]
    /\ returned' = IF fieldsProcessed = 0 THEN returned
                   ELSE returned \cup {IF fpc = "fill" THEN "real" ELSE "fallback"}
    /\ UNCHANGED <<template, enhancedData, confidenceScores, fieldsProcessed,
                   fieldsTotal, fieldsLeft, entriesLeft, lastField, lastLine,
                   repository, allFillable, fieldFailed, cacheVars, combineVars, moreVars>>

----------------------------------------------------------------------------
(* The document assembler: PDFProcessor.createCombinedPDF, addImagesToPDF *)

(* Document types of the upload route. *)
DriversLicenseType == <<"d", "r", "i", "v", "e", "r", "s", "-", "l", "i", "c", "e", "n", "s", "e">>
InsuranceType == <<"i", "n", "s", "u", "r", "a", "n", "c", "e">>
SpotRegistrationType == <<"s", "p", "o", "t", "-", "r", "e", "g", "i", "s", "t", "r", "a", "t", "i", "o", "n">>

DocumentTypes == {DriversLicenseType, InsuranceType, SpotRegistrationType}

(* Declared media types of uploaded files. *)
ImageJpeg == <<"i", "m", "a", "g", "e", "/", "j", "p", "e", "g">>
ImagePngUpper == <<"i", "m", "a", "g", "e", "/", "P", "N", "G">>
ImageWebp == <<"i", "m", "a", "g", "e", "/", "w", "e", "b", "p">>

JpegWord == <<"j", "p", "e", "g">>
JpgWord == <<"j", "p", "g">>
PngWord == <<"p", "n", "g">>

(* Files the upload route receives: the declared media type (multer's        *)
(* mimetype, or type), and whether pdf-lib can embed the bytes as the        *)
(* declared type says.                                                        *)
Files ==
    {[mimetype |-> ImageJpeg, type |-> <<>>, embeds |-> TRUE],
     [mimetype |-> <<>>, type |-> ImagePngUpper, embeds |-> TRUE],
     [mimetype |-> ImageWebp, type |-> <<>>, embeds |-> TRUE],
     [mimetype |-> ImageJpeg, type |-> <<>>, embeds |-> FALSE]}

(* String.prototype.includes *)
Includes(str, sub) ==
    \E i \in 1..(Len(str) - Len(sub) + 1) : SubSeq(str, i, i + Len(sub) - 1) = sub

(* (file.mimetype || file.type || '').toLowerCase() *)
MimeType(file) ==
    ToLowerCase(IF file.mimetype # <<>> THEN file.mimetype ELSE file.type)

(* The media types addImagesToPDF embeds. *)
Supported(file) ==
    \/ Includes(MimeType(file), JpegWord)
    \/ Includes(MimeType(file), JpgWord)
    \/ Includes(MimeType(file), PngWord)

(* str.replace(/-/g, ' ') *)
HyphensToSpaces(str) == [i \in 1..Len(str) |-> IF str[i] = "-" THEN " " ELSE str[i]]

UpperCaseOf ==
    [a |-> "A", b |-> "B", c |-> "C", d |-> "D", e |-> "E", f |-> "F", g |-> "G",
     h |-> "H", i |-> "I", j |-> "J", k |-> "K", l |-> "L", m |-> "M", n |-> "N",
     o |-> "O", p |-> "P", q |-> "Q", r |-> "R", s |-> "S", t |-> "T", u |-> "U",
     v |-> "V", w |-> "W", x |-> "X", y |-> "Y", z |-> "Z"]

(* The characters \w matches. *)
IsWordChar(c) ==
    c \in AlphaNumeric \cup DOMAIN LowerCaseOf \cup {"_"}

(* str.replace(/\b\w/g, l => l.toUpperCase()) *)
CapitalizeWords(str) ==
    [i \in 1..Len(str) |->
        IF /\ IsWordChar(str[i])
           /\ (i = 1 \/ ~IsWordChar(str[i - 1]))
           /\ str[i] \in DOMAIN UpperCaseOf
        THEN UpperCaseOf[str[i]] ELSE str[i]]

(* formatDocumentTypeTitle(documentType) *)
formatDocumentTypeTitle(documentType) ==
    LET titles == [row \in {<<"drivers-license", "Driver's License">>,
                            <<"insurance-card", "Insurance Card">>,
                            <<"new-car-vin", "New Car VIN">>,
                            <<"new-car-odometer", "New Car Odometer">>,
                            <<"trade-in-vin", "Trade-in VIN">>,
                            <<"trade-in-odometer", "Trade-in Odometer">>,
                            <<"spot-registration", "Spot Registration">>} |-> row]
        hit == {row \in DOMAIN titles : row[1] = Join(documentType)}
    IN  IF hit # {} THEN (CHOOSE row \in hit : TRUE)[2]
        ELSE Join(CapitalizeWords(HyphensToSpaces(documentType)))

(* The manifest entry of an image of an unsupported type. *)
UnsupportedLabel(documentType, file) ==
    Join(HyphensToSpaces(documentType)) \o " (unsupported format: "
        \o Join(MimeType(file)) \o ")"

(* One turn of the loop of addImagesToPDF: whether a page is added, and the *)
(* entries pushed to addedImages.  An embedJpg or embedPng that throws is   *)
(* caught; the catch block logs and pushes nothing.                         *)
ImageOutcome(documentType, file) ==
    IF Supported(file)
    THEN IF file.embeds
         THEN [page |-> TRUE, entries |-> <<formatDocumentTypeTitle(documentType)>>]
         ELSE [page |-> FALSE, entries |-> <<>>]
    ELSE [page |-> FALSE, entries |-> <<UnsupportedLabel(documentType, file)>>]

(* The images of the model and what the loop does with each. *)
ImageOutcomeOf ==
    [documentType \in DocumentTypes, file \in Files |->
        ImageOutcome(documentType, file)]

(* Pages of the document fillPDFTemplate returns for a template. *)
TemplatePages(templateId) ==
    CASE templateId = "deal-check" -> 2
      [] templateId = "we-owe" -> 1
      [] templateId = "trade-agreement" -> 3
      [] OTHER -> 1

(* selectedTemplates arguments of createCombinedPDF. *)
Selections ==
    {<<"custom-form">>,
     <<"trade-agreement", "deal-check">>,
     <<"deal-check", "we-owe", "trade-agreement">>}

(* The characters of the name of a template that is not in the title table. *)
CustomFormName == <<"c", "u", "s", "t", "o", "m", "-", "f", "o", "r", "m">>

(* str.replace(/[^a-z0-9\s]/gi, ' ') *)
SymbolsToSpaces(str) ==
    [i \in 1..Len(str) |->
        IF IsAlphaNumeric(ToLowerCaseChar(str[i])) \/ str[i] = " "
        THEN str[i] ELSE " "]

(* str.replace(/\s+/g, ' ') *)
RECURSIVE CollapseSpaces(_)
CollapseSpaces(str) ==
    IF Len(str) < 2 THEN str
    ELSE IF str[1] = " " /\ str[2] = " " THEN CollapseSpaces(Tail(str))
    ELSE <<str[1]>> \o CollapseSpaces(Tail(str))

(* str.trim() *)
RECURSIVE Trim(_)
Trim(str) ==
    IF str = <<>> THEN str
    ELSE IF Head(str) = " " THEN Trim(Tail(str))
    ELSE IF str[Len(str)] = " " THEN Trim(SubSeq(str, 1, Len(str) - 1))
    ELSE str

(* getTemplateTitle(template) *)
getTemplateTitle(templateId) ==
    CASE templateId = "deal-check" -> "Deal Check List"
      [] templateId = "delivery-receipt" -> "Delivery Receipt"
      [] templateId = "we-owe" -> "We Owe Form"
      [] templateId = "trade-agreement" -> "Trade Agreement"
      [] templateId = "bill-of-sale" -> "Bill of Sale"
      [] templateId = "odometer-disclosure" -> "Odometer Disclosure Statement"
      [] templateId = "custom-form" ->
            Join(Trim(CollapseSpaces(SymbolsToSpaces(CustomFormName))))

(* The number of files the upload route stored so far. *)
uploads == Len(uploadLog)

(* jobFiles[documentType] = req.file that moves a key that is there to the end. *)
SetProperty_moveToEnd(entries, documentType, file) ==
    Append(SelectSeq(entries, LAMBDA e : e.documentType # documentType),
           [documentType |-> documentType, file |-> file])

(* jobFiles[documentType] = req.file: a new key goes to the end, a key that *)
(* is there keeps its place and gets the new file.                          *)
SetProperty(entries, documentType, file) ==
    IF \E i \in 1..Len(entries) : entries[i].documentType = documentType
    THEN [i \in 1..Len(entries) |->
             IF entries[i].documentType = documentType
             THEN [documentType |-> documentType, file |-> file]
             ELSE entries[i]]
    ELSE Append(entries, [documentType |-> documentType, file |-> file])

(* POST /api/deals/:id/upload stores req.file for the deal; the files are   *)
(* numbered in the order they are stored.                                   *)
Upload(documentType, file) ==
    /\ cpc \in {"idle", "returned"}
    /\ uploads + 1 \in UploadIds
    /\ uploadLog' = Append(uploadLog, documentType)
    /\ uploadedFiles' =
          SetProperty(uploadedFiles, documentType,
                      [mimetype |-> file.mimetype, type |-> file.type,
                       embeds |-> file.embeds, id |-> uploads + 1])
    /\ UNCHANGED <<cpc, selected, templatesLeft, outcomes, combinedPages,
                   documentsIncluded, supplied, imagesLeft, imagesIncluded,
                   cacheVars, fillVars, moreVars>>

(* createCombinedPDF(selectedTemplates, ..., uploadedFiles) is called. *)
CombineCalled(selectedTemplates) ==
    /\ cpc \in {"idle", "returned"}
    /\ cpc' = "templates"
    /\ selected' = selectedTemplates
    /\ templatesLeft' = selectedTemplates
    /\ outcomes' = <<>>
    /\ combinedPages' = <<>>
    /\ documentsIncluded' = <<>>
    /\ supplied' = <<>>
    /\ imagesLeft' = <<>>
    /\ imagesIncluded' = <<>>
    /\ UNCHANGED <<uploadedFiles, uploadLog, cacheVars, fillVars, moreVars>>

(* The positions, among the first n calls, of the calls that fulfilled. *)
RECURSIVE FulfilledAmong(_, _)
FulfilledAmong(settled, n) ==
    IF n = 0 THEN <<>>
    ELSE FulfilledAmong(settled, n - 1)
             \o (IF settled[n] = "fulfilled" THEN <<n>> ELSE <<>>)

(* The positions in selectedTemplates of the templates whose fill fulfilled. *)
filled == FulfilledAmong(outcomes, Len(outcomes))

(* The pages copied from a filled template, in the template's page order. *)
CopiedPages(position, templateId) ==
    [k \in 1..TemplatePages(templateId) |->
        [from |-> "template", position |-> position, page |-> k]]

(* fillPDFTemplate fulfils for the next template: its pages are copied and  *)
(* its title is pushed.                                                     *)
TemplateAdded ==
    /\ cpc = "templates"
    /\ templatesLeft # <<>>
    /\ LET position == Len(selected) - Len(templatesLeft) + 1
       IN  /\ combinedPages' =
                 combinedPages \o CopiedPages(position, Head(templatesLeft))
           /\ outcomes' = Append(outcomes, "fulfilled")
    /\ documentsIncluded' =
          Append(documentsIncluded, getTemplateTitle(Head(templatesLeft)))
    /\ templatesLeft' = Tail(templatesLeft)
    /\ UNCHANGED <<uploadedFiles, uploadLog, cpc, selected, supplied, imagesLeft,
                   imagesIncluded, cacheVars, fillVars, moreVars>>

(* The loop of createCombinedPDF that gives up on the first failure. *)
TemplateFailed_abort ==
    /\ cpc = "templates"
    /\ templatesLeft # <<>>
    /\ templatesLeft' = <<>>
    /\ outcomes' = Append(outcomes, "rejected")
    /\ UNCHANGED <<uploadedFiles, uploadLog, cpc, selected, combinedPages,
                   documentsIncluded, supplied, imagesLeft, imagesIncluded,
                   cacheVars, fillVars, moreVars>>

(* fillPDFTemplate rejects for the next template: logged, the loop goes on. *)
TemplateFailed ==
    /\ cpc = "templates"
    /\ templatesLeft # <<>>
    /\ templatesLeft' = Tail(templatesLeft)
    /\ outcomes' = Append(outcomes, "rejected")
    /\ UNCHANGED <<uploadedFiles, uploadLog, cpc, selected, combinedPages,
                   documentsIncluded, supplied, imagesLeft, imagesIncluded,
                   cacheVars, fillVars, moreVars>>

(* The template loop is over: addImagesToPDF starts on Object.entries. *)
ImagesStarted ==
    /\ cpc = "templates"
    /\ templatesLeft = <<>>
    /\ cpc' = "images"
    /\ supplied' = uploadedFiles
    /\ imagesLeft' = uploadedFiles
    /\ UNCHANGED <<uploadedFiles, uploadLog, selected, templatesLeft, outcomes,
                   combinedPages, documentsIncluded, imagesIncluded,
                   cacheVars, fillVars, moreVars>>

(* The loop of addImagesToPDF visits the next image. *)
AddImage ==
    /\ cpc = "images"
    /\ imagesLeft # <<>>
    /\ LET documentType == Head(imagesLeft).documentType
           file == Head(imagesLeft).file
           outcome == ImageOutcomeOf[documentType,
                                     [mimetype |-> file.mimetype,
                                      type |-> file.type, embeds |-> file.embeds]]
       IN  /\ combinedPages' =
                 IF outcome.page
                 THEN Append(combinedPages, [from |-> "image", id |-> file.id])
                 ELSE combinedPages
           /\ imagesIncluded' = imagesIncluded \o outcome.entries
    /\ imagesLeft' = Tail(imagesLeft)
    /\ UNCHANGED <<uploadedFiles, uploadLog, cpc, selected, templatesLeft, outcomes,
                   documentsIncluded, supplied, cacheVars, fillVars, moreVars>>

(* The loop over the images is over, combinedDoc.save() fulfils, the result *)
(* is returned.                                                             *)
CombineReturned ==
    /\ cpc = "images"
    /\ imagesLeft = <<>>
    /\ cpc' = "returned"
    /\ UNCHANGED <<uploadedFiles, uploadLog, selected, templatesLeft, outcomes,
                   combinedPages, documentsIncluded, supplied, imagesLeft,
                   imagesIncluded, cacheVars, fillVars, moreVars>>

----------------------------------------------------------------------------
(* The layout of an image page: PDFProcessor.addImagesToPDF *)

(* Lengths on the page are exact fractions <<numerator, denominator>> of a  *)
(* hundredth of a point, with a positive denominator.                       *)
Whole(n) == <<n, 1>>
Over(a, b) == <<a[1] * b[2], a[2] * b[1]>>
Times(a, b) == <<a[1] * b[1], a[2] * b[2]>>
Minus(a, b) == <<a[1] * b[2] - b[1] * a[2], a[2] * b[2]>>
Greater(a, b) == a[1] * b[2] > b[1] * a[2]
AtMost(a, b) == a[1] * b[2] <= b[1] * a[2]
Same(a, b) == a[1] * b[2] = b[1] * a[2]

(* pdfDoc.addPage() without a size makes an A4 page, 595.28 by 841.89       *)
(* points; in hundredths of a point.                                        *)
PageWidth == 59528
PageHeight == 84189

(* const margin = 50, in points. *)
margin == 50

(* Widths and heights, in pixels, of the images embedded. *)
ImageSizes == {1, 3, 4, 7, 9, 10, 16, 70, 100}

NoImage == [width |-> 0, height |-> 0]
NoRectangle == [x |-> Whole(0), y |-> Whole(0),
                width |-> Whole(0), height |-> Whole(0)]

(* The rectangle page.drawImage is given for an image of the given size on  *)
(* a page of the given size.                                                *)
ImageRectangle(imageWidth, imageHeight, pageWidth, pageHeight) ==
    LET imageAspectRatio == Over(Whole(imageWidth), Whole(imageHeight))
        pageAspectRatio == Over(Whole(pageWidth), Whole(pageHeight))
        wider == Greater(imageAspectRatio, pageAspectRatio)
        scaledWidth ==
            IF wider THEN Whole(pageWidth - 100 * margin * 2)
            ELSE Times(Whole(pageHeight - 100 * margin * 2), imageAspectRatio)
        scaledHeight ==
            IF wider THEN Over(Whole(pageWidth - 100 * margin * 2), imageAspectRatio)
            ELSE Whole(pageHeight - 100 * margin * 2)
    IN  [x |-> Over(Minus(Whole(pageWidth), scaledWidth), Whole(2)),
         y |-> Minus(Minus(Whole(pageHeight),
                           Over(Minus(Whole(pageHeight), scaledHeight), Whole(2))),
                     scaledHeight),
         width |-> scaledWidth,
         height |-> scaledHeight]

(* embedJpg or embedPng fulfils with an image of some size. *)
ImageEmbedded(imageWidth, imageHeight) ==
    /\ lpc \in {"idle", "drawn"}
    /\ lpc' = "embedded"
    /\ image' = [width |-> imageWidth, height |-> imageHeight]
    /\ placed' = NoRectangle
    /\ UNCHANGED notLayout

(* The page is added, the rectangle computed and the image drawn. *)
ImageDrawn ==
    /\ lpc = "embedded"
    /\ lpc' = "drawn"
    /\ placed' = ImageRectangle(image.width, image.height, PageWidth, PageHeight)
    /\ UNCHANGED <<image, notLayout>>

----------------------------------------------------------------------------
(* POST /api/deals/:id/upload: two requests for one deal *)

(* The upload requests in flight and the document type each one carries. *)
Uploaders == {1, 2}

DocumentTypeOf(u) == IF u = 1 THEN "drivers-license" ELSE "insurance"

(* The job as createDealProcessingJob left it: the columns' defaults. *)
NewJob == [uploadedFiles |-> EmptyMap, extractedData |-> EmptyMap,
           confidenceScores |-> EmptyMap]

NoJob == [uploadedFiles |-> EmptyMap]
NoExtraction == [data |-> EmptyMap, confidence |-> EmptyMap]
NoUpdates == EmptyMap

(* What Gemini extracts from an image of a document type. *)
Extractions(documentType) ==
    IF documentType = "drivers-license"
    THEN {[data |-> [firstName |-> "Ada", licenseNumber |-> "D1234567"],
           confidence |-> [firstName |-> "high", licenseNumber |-> "medium"]],
          [data |-> [firstName |-> "Ada"],
           confidence |-> [firstName |-> "low"]]}
    ELSE {[data |-> [insuranceCompany |-> "XYZ Mutual"],
           confidence |-> [insuranceCompany |-> "high"]],
          NoExtraction}

(* `uploaded_${documentType}_${Date.now()}` *)
UploadMarker(documentType) == "uploaded_" \o documentType

(* { ...a, ...b } *)
Spread(a, b) == b @@ a

(* The request passed multer and the checks of the file and the document    *)
(* type, and awaits storage.getDealProcessingJob.                           *)
UploadArrives(u) ==
    /\ upc[u] = "idle"
    /\ upc' = [upc EXCEPT ![u] = "awaitJob"]
    /\ UNCHANGED <<job, jobFiles, snapshot, extraction, updates, ustatus,
                   notUpload>>

(* getDealProcessingJob settles: the handler holds the job as it is now, or *)
(* answers 500 when the query failed.                                       *)
UploadJobRead(u) ==
    /\ upc[u] = "awaitJob"
    /\ \E failed \in BOOLEAN :
          IF failed
          THEN /\ upc' = [upc EXCEPT ![u] = "done"]
               /\ ustatus' = [ustatus EXCEPT ![u] = 500]
               /\ UNCHANGED snapshot
          ELSE /\ upc' = [upc EXCEPT ![u] = "awaitExtraction"]
               /\ snapshot' = [snapshot EXCEPT ![u] = job]
               /\ UNCHANGED ustatus
    /\ UNCHANGED <<job, jobFiles, extraction, updates, notUpload>>

(* The extraction fulfils: the file is kept for the deal and               *)
(* updateDealProcessingJob is called with the three columns, each spread    *)
(* from the job the handler read.                                           *)
ExtractionResolved(u) ==
    /\ upc[u] = "awaitExtraction"
    /\ \E extractionResult \in Extractions(DocumentTypeOf(u)) :
          /\ extraction' = [extraction EXCEPT ![u] = extractionResult]
          /\ updates' = [updates EXCEPT ![u] =
                [uploadedFiles |->
                    Spread(snapshot[u].uploadedFiles,
                           DocumentTypeOf(u) :> UploadMarker(DocumentTypeOf(u))),
                 extractedData |->
                    Spread(snapshot[u].extractedData, extractionResult.data),
                 confidenceScores |->
                    Spread(snapshot[u].confidenceScores,
                           extractionResult.confidence)]]
    /\ jobFiles' = Put(jobFiles, DocumentTypeOf(u), u)
    /\ upc' = [upc EXCEPT ![u] = "awaitUpdate"]
    /\ UNCHANGED <<job, snapshot, ustatus, notUpload>>

(* The extraction rejects.  On Gemini's "overloaded" the file is kept and   *)
(* the job is read again; on any other error the answer is 500.             *)
ExtractionRejected(u) ==
    /\ upc[u] = "awaitExtraction"
    /\ \E overloaded \in BOOLEAN :
          IF overloaded
          THEN /\ jobFiles' = Put(jobFiles, DocumentTypeOf(u), u)
               /\ upc' = [upc EXCEPT ![u] = "awaitCurrentJob"]
               /\ UNCHANGED ustatus
          ELSE /\ upc' = [upc EXCEPT ![u] = "done"]
               /\ ustatus' = [ustatus EXCEPT ![u] = 500]
               /\ UNCHANGED jobFiles
    /\ UNCHANGED <<job, snapshot, extraction, updates, notUpload>>

(* After "overloaded": the job is read again and updateDealProcessingJob is *)
(* called with the uploadedFiles column alone.                              *)
CurrentJobRead(u) ==
    /\ upc[u] = "awaitCurrentJob"
    /\ snapshot' = [snapshot EXCEPT ![u] = job]
    /\ updates' = [updates EXCEPT ![u] =
          [uploadedFiles |->
              Spread(job.uploadedFiles,
                     DocumentTypeOf(u) :> UploadMarker(DocumentTypeOf(u)))]]
    /\ upc' = [upc EXCEPT ![u] = "awaitUpdate"]
    /\ UNCHANGED <<job, jobFiles, extraction, ustatus, notUpload>>

(* db.update(...).set(updates): the columns named in updates are replaced. *)
SetColumns(row, columns) ==
    [c \in DOMAIN row |-> IF c \in DOMAIN columns THEN columns[c] ELSE row[c]]

(* updateDealProcessingJob settles: the row is written and the request      *)
(* answers with success, or the statement failed and the answer is 500.     *)
UploadUpdateResolved(u) ==
    /\ upc[u] = "awaitUpdate"
    /\ \E failed \in BOOLEAN :
          IF failed
          THEN /\ ustatus' = [ustatus EXCEPT ![u] = 500]
               /\ UNCHANGED job
          ELSE /\ job' = SetColumns(job, updates[u])
               /\ ustatus' = [ustatus EXCEPT ![u] = 200]
    /\ upc' = [upc EXCEPT ![u] = "done"]
    /\ UNCHANGED <<jobFiles, snapshot, extraction, updates, notUpload>>

----------------------------------------------------------------------------
(* POST /api/persistent-deals/:id/assets: two requests for one deal *)

AssetRequests == {1, 2}

(* The signed URL of the file a request saved: the file name holds          *)
(* Date.now() and a random UUID, so each request has its own.               *)
DownloadUrl(a) == <<"signed", a>>

Respond500(a) ==
    /\ apc' = [apc EXCEPT ![a] = "done"]
    /\ astatus' = [astatus EXCEPT ![a] = 500]

(* The request passed multer with a file and awaits getPersistentDeal. *)
AssetArrives(a) ==
    /\ apc[a] = "idle"
    /\ apc' = [apc EXCEPT ![a] = "awaitDeal"]
    /\ UNCHANGED <<objects, uploadedAssets, deal, astatus, notAsset>>

(* getPersistentDeal settles: 404 without a deal, 500 on an error, else     *)
(* the file is sent to object storage.                                      *)
DealRead(a) ==
    /\ apc[a] = "awaitDeal"
    /\ \E outcome \in {"found", "missing", "error"} :
          CASE outcome = "found" ->
                 /\ deal' = [deal EXCEPT ![a] = uploadedAssets]
                 /\ apc' = [apc EXCEPT ![a] = "awaitSave"]
                 /\ UNCHANGED astatus
            [] outcome = "missing" ->
                 /\ apc' = [apc EXCEPT ![a] = "done"]
                 /\ astatus' = [astatus EXCEPT ![a] = 404]
                 /\ UNCHANGED deal
            [] outcome = "error" ->
                 /\ Respond500(a)
                 /\ UNCHANGED deal
    /\ UNCHANGED <<objects, uploadedAssets, notAsset>>

(* uploadDealFile settles: the object is there, or file.save rejected. *)
FileSaved(a) ==
    /\ apc[a] = "awaitSave"
    /\ \E failed \in BOOLEAN :
          IF failed
          THEN /\ Respond500(a)
               /\ UNCHANGED objects
          ELSE /\ objects' = objects \cup {a}
               /\ apc' = [apc EXCEPT ![a] = "awaitUrl"]
               /\ UNCHANGED astatus
    /\ UNCHANGED <<uploadedAssets, deal, notAsset>>

(* generateDealFileDownloadURL settles: null when the object does not       *)
(* exist, else the signed URL; or it rejects (file.exists or the signing    *)
(* failed), which the outer catch answers with 500.                         *)
UrlSettled(a) ==
    /\ apc[a] = "awaitUrl"
    /\ \E rejected \in BOOLEAN :
          IF rejected THEN Respond500(a)
          ELSE /\ apc' = [apc EXCEPT ![a] =
                            IF a \in objects THEN "awaitUpdate" ELSE "awaitDelete"]
               /\ UNCHANGED astatus
    /\ UNCHANGED <<objects, uploadedAssets, deal, notAsset>>

(* updatePersistentDeal settles.  Fulfilled: the column is the list the     *)
(* handler read with its URL appended, and the answer is success.           *)
(* Rejected: the handler goes on to delete the object.                      *)
AssetUpdateSettled(a) ==
    /\ apc[a] = "awaitUpdate"
    /\ \E rejected \in BOOLEAN :
          IF rejected
          THEN /\ apc' = [apc EXCEPT ![a] = "awaitDelete"]
               /\ UNCHANGED <<uploadedAssets, astatus>>
          ELSE /\ uploadedAssets' = Append(deal[a], DownloadUrl(a))
               /\ apc' = [apc EXCEPT ![a] = "done"]
               /\ astatus' = [astatus EXCEPT ![a] = 200]
    /\ UNCHANGED <<objects, deal, notAsset>>

(* deleteDealFile settles: the object is gone, or file.delete failed, which *)
(* deleteDealFile logs; either way the answer is 500.                       *)
DeleteSettled(a) ==
    /\ apc[a] = "awaitDelete"
    /\ \E deleted \in BOOLEAN :
          objects' = IF deleted THEN objects \ {a} ELSE objects
    /\ Respond500(a)
    /\ UNCHANGED <<uploadedAssets, deal, notAsset>>

----------------------------------------------------------------------------
(* The client's page (home.tsx) and the files the server keeps for the deal *)

(* The upload zones the user works with and the files the user picks. *)
Zones == {"drivers-license", "insurance"}
PickedFiles == {"front.jpg", "retake.jpg"}

NoGenerate == [made |-> FALSE]

(* const { [documentType]: _, ...rest } = prev *)
Without(m, key) == [k \in DOMAIN m \ {key} |-> m[k]]

(* handleFileUpload: the file is shown at once and the upload request is    *)
(* sent.                                                                    *)
HandleFileUpload(file, documentType) ==
    /\ \A request \in inFlight : request.documentType # documentType
    /\ shown' = Put(shown, documentType, file)
    /\ inFlight' = inFlight \cup {[documentType |-> documentType, file |-> file]}
    /\ UNCHANGED <<jobFiles, lastGenerate, notClient>>

(* The upload request is answered with success: the server has kept the     *)
(* file; onSuccess leaves the files shown as they are.                      *)
UploadSucceeded(request) ==
    /\ request \in inFlight
    /\ inFlight' = inFlight \ {request}
    /\ jobFiles' = Put(jobFiles, request.documentType, request.file)
    /\ UNCHANGED <<shown, lastGenerate, notClient>>

(* The upload request is answered with an error, before the server kept     *)
(* the file (no job, extraction failed) or after (the update of the job     *)
(* failed): onError takes the file off the page.                            *)
UploadFailed(request) ==
    /\ request \in inFlight
    /\ inFlight' = inFlight \ {request}
    /\ \E kept \in BOOLEAN :
          jobFiles' = IF kept
                      THEN Put(jobFiles, request.documentType, request.file)
                      ELSE jobFiles
    /\ shown' = Without(shown, request.documentType)
    /\ UNCHANGED <<lastGenerate, notClient>>

(* handleFileRemove: the file is taken off the page; no request is sent. *)
HandleFileRemove(documentType) ==
    /\ documentType \in DOMAIN shown
    /\ shown' = Without(shown, documentType)
    /\ UNCHANGED <<jobFiles, inFlight, lastGenerate, notClient>>

(* POST /api/deals/:id/generate, sent with the selected templates and the   *)
(* reviewed data: createCombinedPDF gets dealFilesStorage.get(id).          *)
GenerateRequested ==
    /\ lastGenerate' = [made |-> TRUE, images |-> jobFiles, page |-> shown,
                        settled |-> inFlight = {}]
    /\ UNCHANGED <<shown, jobFiles, inFlight, notClient>>

----------------------------------------------------------------------------
(* The inventory service (inventoryService.ts) *)

(* The header lines of the CSV files read: the full header and one without
   the VIN column. *)
HeaderLines ==
    { <<"S", "t", "o", "c", "k", " ", "N", "u", "m", "b", "e", "r",
      ",", "Y", "e", "a", "r", ",", "M", "a", "k", "e", ",", "M",
      "o", "d", "e", "l", ",", "V", "I", "N", ",", "T", "r", "i",
      "m", ",", "E", "x", "t", "e", "r", "i", "o", "r">>,
      <<"S", "t", "o", "c", "k", " ", "N", "u", "m", "b", "e", "r",
      ",", "Y", "e", "a", "r", ",", "M", "a", "k", "e", ",", "M",
      "o", "d", "e", "l">> }

(* The data lines: two rows whose stock numbers differ in case only, a row
   without the optional columns, a row without a stock number, a row with
   quoted fields and a year that is no number, and a blank line. *)
DataLines ==
    { <<"A", "1", ",", "2", "0", "2", "0", ",", "K", "i", "a", ",",
      "R", "i", "o", ",", "V", "1", ",", "L", "X", ",", "R", "e",
      "d">>,
      <<"a", "1", ",", "2", "0", "2", "1", ",", "K", "i", "a", ",",
      "R", "i", "o", ",", "V", "2", ",", "E", "X", ",", "B", "l",
      "u", "e">>,
      <<"B", "2", ",", "2", "0", "1", "9", ",", "F", "o", "r", "d",
      ",", "F", "o", "c", "u", "s", ",", "V", "3">>,
      <<",", "2", "0", "1", "8", ",", "F", "o", "r", "d", ",", "F",
      "o", "c", "u", "s", ",", "V", "4">>,
      <<"\"", "C", ",", "3", "\"", ",", "o", "l", "d", ",", "K", "i",
      "a", ",", "\"", "S", "o", "u", "l", " ", "\"", "\"", "X", "\"",
      "\"", "\"", ",", "V", "5">>,
      <<" ", " ">> }

(* The stock numbers lookupByStock is asked for. *)
StockNumbersAsked ==
    { <<"A", "1">>,
      <<" ", "a", "1", " ">>,
      <<"B", "2">>,
      <<"C", ",", "3">>,
      <<"Z", "9">>,
      <<>> }

(* The number of data lines of a file. *)
RowCounts == {0, 1, 2, 3}

RECURSIVE LinesOf(_)
LinesOf(n) ==
    IF n = 0 THEN {<<>>}
    ELSE {<<line>> \o rest : line \in DataLines, rest \in LinesOf(n - 1)}

NoFile == [exists |-> FALSE]

(* A file with its lines, csvContent.split('\n'). *)
FileOfLines(lines) == [exists |-> TRUE, lines |-> lines]

(* The files at filePath: none, an empty one, a header and data lines. *)
InventoryFiles ==
    {NoFile, FileOfLines(<<>>)} \cup
    {FileOfLines(<<header>> \o rows) :
        header \in HeaderLines, rows \in UNION {LinesOf(n) : n \in RowCounts}}

(* parseCSVLine from position i (from 1), with the field read so far.  The  *)
(* fields are kept as the code pushes them, trimmed.                        *)
RECURSIVE ParseFrom(_, _, _, _, _)
ParseFrom(line, i, current, inQuotes, result) ==
    IF i > Len(line) THEN Append(result, Trim(current))
    ELSE IF line[i] = "\""
    THEN IF inQuotes /\ i + 1 <= Len(line) /\ line[i + 1] = "\""
         THEN ParseFrom(line, i + 2, Append(current, "\""), inQuotes, result)
         ELSE ParseFrom(line, i + 1, current, ~inQuotes, result)
    ELSE IF line[i] = "," /\ ~inQuotes
    THEN ParseFrom(line, i + 1, <<>>, inQuotes, Append(result, Trim(current)))
    ELSE ParseFrom(line, i + 1, Append(current, line[i]), inQuotes, result)

parseCSVLine(line) == ParseFrom(line, 1, <<>>, FALSE, <<>>)

ParsedLine == [line \in HeaderLines \cup DataLines |-> parseCSVLine(line)]

Chars(s) ==
    CASE s = "stock" -> <<"s", "t", "o", "c", "k">>
      [] s = "number" -> <<"n", "u", "m", "b", "e", "r">>
      [] s = "year" -> <<"y", "e", "a", "r">>
      [] s = "make" -> <<"m", "a", "k", "e">>
      [] s = "model" -> <<"m", "o", "d", "e", "l">>
      [] s = "vin" -> <<"v", "i", "n">>
      [] s = "trim" -> <<"t", "r", "i", "m">>
      [] s = "exterior" -> <<"e", "x", "t", "e", "r", "i", "o", "r">>
      [] s = "color" -> <<"c", "o", "l", "o", "r">>

(* The key buildColumnMap sets for a header, "" for none. *)
ColumnKey(headerName) ==
    LET header == ToLowerCase(Trim(headerName))
    IN  IF Includes(header, Chars("stock")) /\ Includes(header, Chars("number"))
        THEN "stockNumber"
        ELSE IF header = Chars("year") THEN "year"
        ELSE IF header = Chars("make") THEN "make"
        ELSE IF header = Chars("model") THEN "model"
        ELSE IF header = Chars("vin") THEN "vin"
        ELSE IF header = Chars("trim") THEN "trim"
        ELSE IF header = Chars("exterior") \/ header = Chars("color")
        THEN "exterior"
        ELSE ""

(* buildColumnMap: key -> index from 0; a later header of the same key      *)
(* overwrites an earlier one.                                               *)
buildColumnMap(headers) ==
    LET keys == {ColumnKey(headers[i]) : i \in 1..Len(headers)} \ {""}
    IN  [key \in keys |->
            CHOOSE i \in 0..(Len(headers) - 1) :
                /\ ColumnKey(headers[i + 1]) = key
                /\ \A j \in (i + 1)..(Len(headers) - 1) :
                      ColumnKey(headers[j + 1]) # key]

RequiredColumns == {"stockNumber", "year", "make", "model", "vin"}

(* validateRequiredColumns throws. *)
MissingColumns(columnMap) == RequiredColumns \ DOMAIN columnMap # {}

(* fields[columnMap.key]?.trim(), the empty string for undefined. *)
FieldAt(fields, columnMap, key) ==
    IF key \in DOMAIN columnMap /\ columnMap[key] + 1 <= Len(fields)
    THEN Trim(fields[columnMap[key] + 1])
    ELSE <<>>

NoItem == [found |-> FALSE]

(* parseInventoryRow: the item, NoItem (null) for a row without a required  *)
(* field.                                                                   *)
parseInventoryRow(line, columnMap) ==
    LET fields == ParsedLine[line]
        At(key) == FieldAt(fields, columnMap, key)
    IN  IF \E key \in RequiredColumns : At(key) = <<>>
        THEN NoItem
        ELSE [stockNumber |-> At("stockNumber"), year |-> At("year"),
              make |-> At("make"), model |-> At("model"), vin |-> At("vin"),
              trim |-> At("trim"), color |-> At("exterior")]

(* item.stockNumber.trim().toLowerCase() *)
StockKey(stockNumber) == Join(ToLowerCase(Trim(stockNumber)))

(* parseInt's NaN; parseInt of an unsigned string is never negative. *)
NaN == -1

DigitValue(c) == CHOOSE d \in 0..9 : Digits[d + 1] = c

IsDigitChar(c) == \E d \in 1..10 : Digits[d] = c

RECURSIVE LeadingDigits(_, _)
LeadingDigits(str, sofar) ==
    IF str = <<>> \/ ~IsDigitChar(Head(str)) THEN sofar
    ELSE LeadingDigits(Tail(str), 10 * sofar + DigitValue(Head(str)))

(* parseInt of a trimmed string without a sign. *)
parseInt(str) ==
    IF str = <<>> \/ ~IsDigitChar(Head(str)) THEN NaN
    ELSE LeadingDigits(str, 0)

(* lines.filter(line => line.trim().length > 0) *)
NonBlank(lines) == SelectSeq(lines, LAMBDA line : Trim(line) # <<>>)

(* The rows of the loop at 62-76 from row i on: the table and the items. *)
RECURSIVE RowsFrom(_, _, _, _, _)
RowsFrom(lines, i, columnMap, table, inventoryItems) ==
    IF i > Len(lines) THEN [inventory |-> table, items |-> inventoryItems]
    ELSE LET item == parseInventoryRow(lines[i], columnMap)
         IN  IF item = NoItem
             THEN RowsFrom(lines, i + 1, columnMap, table, inventoryItems)
             ELSE RowsFrom(lines, i + 1, columnMap,
                           Put(table, StockKey(item.stockNumber), item),
                           Append(inventoryItems, item))

NoYearRange == [none |-> TRUE]

(* updateStats: lastLoaded stands for the time of the load. *)
updateStats(items) ==
    LET all == 1..Len(items)
        years == {parseInt(items[i].year) : i \in all} \ {NaN}
    IN  [totalVehicles |-> Len(items),
         uniqueMakes |-> Cardinality({ToLowerCase(items[i].make) : i \in all}),
         uniqueModels |->
             Cardinality({ToLowerCase(items[i].make \o <<" ">> \o items[i].model) :
                             i \in all}),
         yearRange |-> IF years = {} THEN NoYearRange
                       ELSE [min |-> CHOOSE y \in years : \A z \in years : y <= z,
                             max |-> CHOOSE y \in years : \A z \in years : y >= z],
         lastLoaded |-> "date"]

(* loadInventoryCSV throws before it clears the table. *)
LoadThrows(file) ==
    IF ~file.exists THEN TRUE
    ELSE IF NonBlank(file.lines) = <<>> THEN TRUE
    ELSE MissingColumns(buildColumnMap(ParsedLine[NonBlank(file.lines)[1]]))

(* What loadInventoryCSV builds from a file it does not throw on: the      *)
(* table after the loop and the statistics of updateStats.                  *)
Built(file) ==
    LET lines == NonBlank(file.lines)
        columnMap == buildColumnMap(ParsedLine[lines[1]])
        built == RowsFrom(lines, 2, columnMap, EmptyMap, <<>>)
    IN  [inventory |-> built.inventory, stats |-> updateStats(built.items)]

BuiltOf ==
    [file \in {f \in InventoryFiles : ~LoadThrows(f)} |-> Built(file)]

ThrowsOf == [file \in InventoryFiles |-> LoadThrows(file)]

NoLoad == "none"

(* loadInventoryCSV resolves: the table is cleared and built from the rows, *)
(* then the statistics are replaced.                                        *)
LoadInventoryCSV(file) ==
    /\ ~ThrowsOf[file]
    /\ inventory' = BuiltOf[file].inventory
    /\ stats' = BuiltOf[file].stats
    /\ lastLoad' = "resolved"
    /\ UNCHANGED <<lastLookup, notInventory>>

(* loadInventoryCSV rejects: the table and the statistics stay. *)
LoadInventoryCSVRejected(file) ==
    /\ ThrowsOf[file]
    /\ lastLoad' = "rejected"
    /\ UNCHANGED <<inventory, stats, lastLookup, notInventory>>

(* lookupByStock: the item, NoItem (null) if there is none. *)
lookupByStock(stockNumber) ==
    IF stockNumber = <<>> THEN NoItem
    ELSE IF StockKey(stockNumber) \in DOMAIN inventory
    THEN inventory[StockKey(stockNumber)]
    ELSE NoItem

LookupByStock(stockNumber) ==
    /\ lastLookup' = [stockNumber |-> stockNumber,
                      found |-> lookupByStock(stockNumber)]
    /\ UNCHANGED <<inventory, stats, lastLoad, notInventory>>

----------------------------------------------------------------------------
(* The vehicle search routes (routes.ts 549-630) *)

(* The POST /api/vehicle-search/:id/search requests for the one job. *)
SearchRequests == {1, 2}

NoSearchJob == [exists |-> FALSE]

(* The writer of the status a new job gets. *)
Creation == 0

(* storage.updateVehicleSearchJob(id, updates) on the stored job, with the  *)
(* request that asks for it; undefined (no write) without a job.            *)
UpdateVehicleSearchJob(r, changes) ==
    IF ~searchJob.exists
    THEN UNCHANGED <<searchJob, statusLog>>
    ELSE /\ searchJob' = Spread(searchJob, changes)
         /\ statusLog' = Append(statusLog, [by |-> r, status |-> changes.status])

(* POST /api/vehicle-search: the job, status 'pending'. *)
CreateVehicleSearchJob ==
    /\ ~searchJob.exists
    /\ searchJob' = [exists |-> TRUE, status |-> "pending", searchResults |-> <<>>]
    /\ statusLog' = <<[by |-> Creation, status |-> "pending"]>>
    /\ UNCHANGED <<spc, aiCalls, sresponse, notSearch>>

(* The handler is where `from` says and moves on to `to`. *)
SearchStep(r, from, to) ==
    /\ spc[r] = from
    /\ spc' = [spc EXCEPT ![r] = to]

(* The awaited promise of the step at `from` rejects: on to the catch. *)
SearchStepRejected(r, from) ==
    /\ from \in {"getVehicleSearchJob", "processing", "parseWebsiteInventory",
                 "matchVehiclesToQuery", "completed"}
    /\ SearchStep(r, from, "catch")
    /\ UNCHANGED <<searchJob, statusLog, aiCalls, sresponse, notSearch>>

(* The request arrives: await storage.getVehicleSearchJob(id). *)
SearchArrives(r) ==
    /\ SearchStep(r, "idle", "getVehicleSearchJob")
    /\ UNCHANGED <<searchJob, statusLog, aiCalls, sresponse, notSearch>>

(* getVehicleSearchJob resolves: 404 without a job, else                    *)
(* await storage.updateVehicleSearchJob(id, { status: 'processing' }).      *)
SearchJobRead(r) ==
    /\ IF searchJob.exists
       THEN /\ SearchStep(r, "getVehicleSearchJob", "processing")
            /\ UNCHANGED sresponse
       ELSE /\ SearchStep(r, "getVehicleSearchJob", "responded")
            /\ sresponse' = [sresponse EXCEPT ![r] = 404]
    /\ UNCHANGED <<searchJob, statusLog, aiCalls, notSearch>>

(* The update to 'processing' resolves:                                     *)
(* await geminiService.parseWebsiteInventory(mockWebsiteContent).           *)
SearchProcessing(r) ==
    /\ SearchStep(r, "processing", "parseWebsiteInventory")
    /\ UpdateVehicleSearchJob(r, [status |-> "processing"])
    /\ aiCalls' = [aiCalls EXCEPT ![r] = @ + 1]
    /\ UNCHANGED <<sresponse, notSearch>>

(* parseWebsiteInventory resolves:                                          *)
(* await geminiService.matchVehiclesToQuery(job.customerQuery, vehicles).   *)
WebsiteParsed(r) ==
    /\ SearchStep(r, "parseWebsiteInventory", "matchVehiclesToQuery")
    /\ aiCalls' = [aiCalls EXCEPT ![r] = @ + 1]
    /\ UNCHANGED <<searchJob, statusLog, sresponse, notSearch>>

(* matchVehiclesToQuery resolves: await the update with the results. *)
VehiclesMatched(r) ==
    /\ SearchStep(r, "matchVehiclesToQuery", "completed")
    /\ UNCHANGED <<searchJob, statusLog, aiCalls, sresponse, notSearch>>

(* The update with the results resolves: res.json({ success: true, ... }). *)
SearchCompleted(r) ==
    /\ SearchStep(r, "completed", "responded")
    /\ UpdateVehicleSearchJob(r, [searchResults |-> <<"matched", r>>,
                                  status |-> "completed"])
    /\ sresponse' = [sresponse EXCEPT ![r] = 200]
    /\ UNCHANGED <<aiCalls, notSearch>>

(* The catch: the update to 'failed' resolves, res.status(500). *)
SearchFailed(r) ==
    /\ SearchStep(r, "catch", "responded")
    /\ UpdateVehicleSearchJob(r, [status |-> "failed"])
    /\ sresponse' = [sresponse EXCEPT ![r] = 500]
    /\ UNCHANGED <<aiCalls, notSearch>>

(* The catch: the update to 'failed' rejects; the handler's promise rejects *)
(* and nothing is sent.                                                     *)
SearchFailedRejected(r) ==
    /\ SearchStep(r, "catch", "unhandled")
    /\ UNCHANGED <<searchJob, statusLog, aiCalls, sresponse, notSearch>>

----------------------------------------------------------------------------
Init ==
    /\ tempPDFStorage = EmptyMap
    /\ clock = 1
    /\ ticks = 0
    /\ stores = 0
    /\ pc = [r \in Requests |-> "idle"]
    /\ remaining = [r \in Requests |-> 0]
    /\ generatedDocs = [r \in Requests |-> <<>>]
    /\ fillOutcomes = [r \in Requests |-> <<>>]
    /\ combinedDownloadUrl = [r \in Requests |-> NoKey]
    /\ status = [r \in Requests |-> 0]
    /\ lastGet = NoOp
    /\ justGot = FALSE
    /\ lastStore = NoOp
    /\ issued = EmptyMap
    /\ fpc = "idle"
    /\ template = ""
    /\ enhancedData = EmptyMap
    /\ confidenceScores = EmptyMap
    /\ fieldsProcessed = 0
    /\ fieldsTotal = 0
    /\ fieldsLeft = 0
    /\ entriesLeft = <<>>
    /\ lastField = NoField
    /\ lastLine = NoLine
    /\ fillResult = NoResult
    /\ returned = {}
    /\ repository = "pending"
    /\ allFillable = TRUE
    /\ fieldFailed = FALSE
    /\ uploadedFiles = <<>>
    /\ uploadLog = <<>>
    /\ cpc = "idle"
    /\ selected = <<>>
    /\ templatesLeft = <<>>
    /\ outcomes = <<>>
    /\ combinedPages = <<>>
    /\ documentsIncluded = <<>>
    /\ supplied = <<>>
    /\ imagesLeft = <<>>
    /\ imagesIncluded = <<>>
    /\ lpc = "idle"
    /\ image = NoImage
    /\ placed = NoRectangle
    /\ job = NewJob
    /\ jobFiles = EmptyMap
    /\ upc = [u \in Uploaders |-> "idle"]
    /\ snapshot = [u \in Uploaders |-> NoJob]
    /\ extraction = [u \in Uploaders |-> NoExtraction]
    /\ updates = [u \in Uploaders |-> NoUpdates]
    /\ ustatus = [u \in Uploaders |-> 0]
    /\ objects = {}
    /\ uploadedAssets = <<>>
    /\ apc = [a \in AssetRequests |-> "idle"]
    /\ deal = [a \in AssetRequests |-> <<>>]
    /\ astatus = [a \in AssetRequests |-> 0]
    /\ shown = EmptyMap
    /\ inFlight = {}
    /\ lastGenerate = NoGenerate
    /\ inventory = EmptyMap
    /\ stats = [totalVehicles |-> 0, uniqueMakes |-> 0, uniqueModels |-> 0,
                yearRange |-> NoYearRange, lastLoaded |-> NULL]
    /\ lastLoad = NoLoad
    /\ lastLookup = [stockNumber |-> <<>>, found |-> NoItem]
    /\ searchJob = NoSearchJob
    /\ statusLog = <<>>
    /\ spc = [r \in SearchRequests |-> "idle"]
    /\ aiCalls = [r \in SearchRequests |-> 0]
    /\ sresponse = [r \in SearchRequests |-> 0]

Next ==
    \/ \E r \in Requests : GenerateArrives(r)
    \/ \E r \in Requests : JobResolved(r)
    \/ \E r \in Requests : TemplatesResolved(r)
    \/ \E r \in Requests : FillResolved(r)
    \/ \E r \in Requests : FillRejected(r)
    \/ \E r \in Requests : UpdateResolved(r)
    \/ \E r \in Requests : CombinedResolved(r)
    \/ \E r \in Requests : CombinedRejected(r)
    \/ \E downloadKey \in DOMAIN issued \cup {UnknownKey} : Download(downloadKey)
    \/ LongPause

(* The routes: concurrent generate requests, downloads, time. *)
SpecRoutes == Init /\ [][Next]_vars

(* The cache alone: its two operations called in any order, and time. *)
NextCache ==
    \/ Store
    \/ \E downloadKey \in DOMAIN issued \cup {UnknownKey} : Download(downloadKey)
    \/ \E d \in TickSteps : Tick(d)

Spec == Init /\ [][NextCache]_vars

(* The filler alone: calls of fillPDFTemplate, one after the other. *)
NextFill ==
    \/ \E templateId \in Templates, extractedData \in DataRecords,
          scores \in ConfidenceRecords :
          FillCalled(templateId, extractedData, scores)
    \/ SearchRejected
    \/ TemplateFound
    \/ TemplateMissing
    \/ DownloadFailed
    \/ \E n \in 0..MaxFields : LoadResolved(n)
    \/ LoadRejected
    \/ \E field \in Fields : FillField(field)
    \/ DrawLine
    \/ SaveResolved

SpecFill == Init /\ [][NextFill]_vars

(* The assembler alone: uploads for one deal and calls of createCombinedPDF. *)
NextCombine ==
    \/ \E documentType \in DocumentTypes, file \in Files :
          Upload(documentType, file)
    \/ \E selectedTemplates \in Selections : CombineCalled(selectedTemplates)
    \/ TemplateAdded
    \/ TemplateFailed
    \/ ImagesStarted
    \/ AddImage
    \/ CombineReturned

SpecCombine == Init /\ [][NextCombine]_vars

(* The batch of templates as the generate route and as createCombinedPDF    *)
(* work through it: either the requests of SpecRoutes run, or the assembler *)
(* of SpecCombine does.                                                     *)
NextBatch ==
    \/ /\ cpc = "idle"
       /\ uploads = 0
       /\ Next
    \/ /\ \A r \in Requests : pc[r] = "idle"
       /\ lastGet = NoOp
       /\ ~justGot
       /\ ticks = 0
       /\ NextCombine

SpecBatch == Init /\ [][NextBatch]_vars

(* The layout of image pages alone. *)
NextLayout ==
    \/ \E imageWidth \in ImageSizes, imageHeight \in ImageSizes :
          ImageEmbedded(imageWidth, imageHeight)
    \/ ImageDrawn

SpecLayout == Init /\ [][NextLayout]_vars

(* Two upload requests for one deal, interleaved at their awaits. *)
NextUpload ==
    \/ \E u \in Uploaders : UploadArrives(u)
    \/ \E u \in Uploaders : UploadJobRead(u)
    \/ \E u \in Uploaders : ExtractionResolved(u)
    \/ \E u \in Uploaders : ExtractionRejected(u)
    \/ \E u \in Uploaders : CurrentJobRead(u)
    \/ \E u \in Uploaders : UploadUpdateResolved(u)

SpecUpload == Init /\ [][NextUpload]_vars

(* Two asset uploads for one persistent deal, interleaved at their awaits. *)
NextAsset ==
    \/ \E a \in AssetRequests : AssetArrives(a)
    \/ \E a \in AssetRequests : DealRead(a)
    \/ \E a \in AssetRequests : FileSaved(a)
    \/ \E a \in AssetRequests : UrlSettled(a)
    \/ \E a \in AssetRequests : AssetUpdateSettled(a)
    \/ \E a \in AssetRequests : DeleteSettled(a)

SpecAsset == Init /\ [][NextAsset]_vars

(* One user on the page of one deal. *)
NextClient ==
    \/ \E file \in PickedFiles, documentType \in Zones :
          HandleFileUpload(file, documentType)
    \/ \E request \in inFlight : UploadSucceeded(request)
    \/ \E request \in inFlight : UploadFailed(request)
    \/ \E documentType \in Zones : HandleFileRemove(documentType)
    \/ GenerateRequested

SpecClient == Init /\ [][NextClient]_vars

(* The inventory service alone. *)
NextInventory ==
    \/ \E file \in InventoryFiles : LoadInventoryCSV(file)
    \/ \E file \in InventoryFiles : LoadInventoryCSVRejected(file)
    \/ \E stockNumber \in StockNumbersAsked : LookupByStock(stockNumber)

SpecInventory == Init /\ [][NextInventory]_vars

(* The search requests for one job, interleaved at their awaits. *)
NextSearch ==
    \/ CreateVehicleSearchJob
    \/ \E r \in SearchRequests :
          \/ SearchArrives(r)
          \/ SearchJobRead(r)
          \/ SearchProcessing(r)
          \/ WebsiteParsed(r)
          \/ VehiclesMatched(r)
          \/ SearchCompleted(r)
          \/ SearchFailed(r)
          \/ SearchFailedRejected(r)
          \/ \E from \in {"getVehicleSearchJob", "processing",
                           "parseWebsiteInventory", "matchVehiclesToQuery",
                           "completed"} : SearchStepRejected(r, from)

SpecSearch == Init /\ [][NextSearch]_vars

----------------------------------------------------------------------------
(* Artifact cache: claims *)

(* C1: retrieval is read-only and idempotent.  A getTempPDF call leaves the  *)
(* map as it was, and a call that follows another call for the same key with *)
(* no storeTempPDF in between returns the same buffer, content type and file *)
(* name (or the same not-found).                                             *)
C1_RetrievalReadOnlyIdempotent ==
    [][justGot' =>
          /\ tempPDFStorage' = tempPDFStorage
          /\ (lastGet # NoOp /\ lastGet.key = lastGet'.key
                => lastGet'.result = lastGet.result)]_vars

(* C1 witness: an entry has been retrieved twice in a row, time may have     *)
(* passed in between.                                                        *)
C1_Witness ==
    /\ justGot
    /\ lastGet.again
    /\ lastGet.result # NotFound

(* C2: eviction.  Once a storeTempPDF call has been made later than one hour *)
(* after an entry was stored, every get on the entry's key returns not-found;*)
(* a get ten minutes after the entry was stored returns the entry.           *)
C2_Eviction ==
    (justGot /\ lastGet.key \in DOMAIN issued) =>
        LET T == issued[lastGet.key].createdAt
        IN  /\ (lastStore.now > T + TTL => lastGet.result = NotFound)
            /\ (clock = T + TenMinutes
                  => lastGet.result = Found(issued[lastGet.key]))

(* C2 witness: a get on a key whose entry was swept by a store made more     *)
(* than an hour after the entry's creation.                                  *)
C2_Witness ==
    /\ justGot
    /\ lastGet.key \in DOMAIN issued
    /\ lastStore.now > issued[lastGet.key].createdAt + TTL
    /\ lastGet.result = NotFound

(* C3: every storeTempPDF call returns a fresh key: one that is not in the   *)
(* map when the call is made and that no earlier call has returned.          *)
C3_FreshKey ==
    [][stores' # stores =>
          /\ lastStore'.key \notin DOMAIN tempPDFStorage
          /\ lastStore'.key \notin DOMAIN issued]_vars

(* C4: round trip.  A get for the key the last storeTempPDF call returned    *)
(* gives back the buffer and file name passed to that call, with the content *)
(* type of a PDF.                                                            *)
C4_RoundTrip ==
    (justGot /\ lastStore # NoOp /\ lastGet.key = lastStore.key) =>
        lastGet.result = [found |-> TRUE, buffer |-> lastStore.buffer,
                          contentType |-> PdfContentType,
                          fileName |-> lastStore.fileName]

(* C4 witness: the key of the last store has been retrieved. *)
C4_Witness ==
    /\ justGot
    /\ lastStore # NoOp
    /\ lastGet.key = lastStore.key
    /\ lastGet.result # NotFound

C6_LazySweep ==
    \A k \in DOMAIN issued :
        (/\ clock > issued[k].createdAt + TTL
         /\ lastStore.now <= issued[k].createdAt + TTL) =>
            /\ k \in DOMAIN tempPDFStorage
            /\ (justGot /\ lastGet.key = k => lastGet.result = Found(issued[k]))

(* C6 witness: a get has returned an entry older than one hour. *)
C6_Witness ==
    /\ justGot
    /\ lastGet.key \in DOMAIN issued
    /\ clock > issued[lastGet.key].createdAt + TTL
    /\ lastGet.result # NotFound

(* C7: cache operations are serialized.  Whatever the interleaving of the    *)
(* requests, a step that changes the map is one whole storeTempPDF call of   *)
(* one request (the sweep and the insertion together), a get changes nothing *)
(* and returns what the map holds, and no step moves two requests.           *)
C7_Serialized ==
    [][/\ IF stores' # stores
          THEN /\ tempPDFStorage' =
                     Put(cleanupTempStorage(tempPDFStorage, clock),
                         lastStore'.key,
                         Entry(lastStore'.fileName, lastStore'.buffer, clock))
               /\ \E r \in Requests :
                     /\ pc[r] \in {"awaitFill", "awaitCombined"}
                     /\ pc'[r] # pc[r] \/ remaining'[r] # remaining[r]
                     /\ lastStore'.buffer[1] = r
          ELSE tempPDFStorage' = tempPDFStorage
       /\ justGot' => /\ stores' = stores
                      /\ lastGet'.result = Retrieved(tempPDFStorage', lastGet'.key)
                      /\ UNCHANGED reqVars
       /\ \A r, q \in Requests :
             (pc'[r] # pc[r] /\ pc'[q] # pc[q]) => r = q]_vars

(* C7 witness: a download has been served while both generate requests were  *)
(* between their first and their last store.                                 *)
C7_Witness ==
    /\ justGot
    /\ lastGet.result # NotFound
    /\ \A r \in Requests : pc[r] \in {"awaitUpdate", "awaitCombined"}
    /\ \A r \in Requests : generatedDocs[r] # <<>>
    /\ \E k \in DOMAIN issued : k \notin DOMAIN tempPDFStorage

----------------------------------------------------------------------------
(* Field mapper and template filler: claims *)

(* C8: mapFieldNameToDataKey is "normalize, then look up".  With n the raw   *)
(* name lower-cased and stripped of every character that is not a letter or  *)
(* a digit, the result is the alias table's canonical key when n is an alias *)
(* of the table and null for every other n; two raw names with the same n    *)
(* give the same result.                                                     *)
C8_NormalizeThenLookUp ==
    lastField # NoField =>
        LET n == Normalize(lastField.field.name)
        IN  /\ lastField.mappedDataKey =
                   IF n \in DOMAIN mappings THEN mappings[n] ELSE NULL
            /\ \A other \in RawNames :
                   Normalize(other) = n =>
                       mapFieldNameToDataKey(other, template)
                           = lastField.mappedDataKey

(* C9: scenario A.  When the loop has visited a text field named             *)
(* "DriversLicenseNumber" that pdf-lib lets be written, and the data record  *)
(* holds licenseNumber = "D1234567", the field has been set to "D1234567"    *)
(* and counted in fieldsProcessed.                                           *)
C9_ScenarioA ==
    (/\ lastField # NoField
     /\ lastField.field.name = DriversLicenseNumber
     /\ lastField.field.kind = "PDFTextField"
     /\ ~lastField.field.throws
     /\ "licenseNumber" \in DOMAIN enhancedData
     /\ enhancedData["licenseNumber"] = D1234567) =>
        /\ lastField.call = "setText"
        /\ lastField.arg = D1234567
        /\ lastField.counted

(* C10: every result of fillPDFTemplate, from a real template or from the    *)
(* fallback document, has fieldsProcessed <= fieldsTotal.                    *)
C10_ProcessedAtMostTotal ==
    fillResult # NoResult => fillResult.fieldsProcessed <= fillResult.fieldsTotal

(* C10 witness: calls have returned in both modes with fields processed, and *)
(* the last result has every field of its template processed.                *)
C10_Witness ==
    /\ returned = {"real", "fallback"}
    /\ fillResult # NoResult
    /\ fillResult.fieldsTotal > 1
    /\ fillResult.fieldsProcessed = fillResult.fieldsTotal

(* C11 as the spec states it: for every result, fieldsProcessed equals       *)
(* fieldsTotal if and only if every field considered had a mapped canonical  *)
(* key, a present value for that key and a kind compatible with the value.   *)
C11_EqualityIffAllFillable ==
    fillResult # NoResult =>
        ((fillResult.fieldsProcessed = fillResult.fieldsTotal) <=> allFillable)

(* C11, amended: for every result, fieldsProcessed equals fieldsTotal if and *)
(* only if every field considered had a mapped canonical key, a present      *)
(* value for that key and a kind compatible with the value, and no write to  *)
(* a field threw.                                                            *)
C11_EqualityIffAllSet ==
    fillResult # NoResult =>
        ((fillResult.fieldsProcessed = fillResult.fieldsTotal)
            <=> (allFillable /\ ~fieldFailed))

(* C11 witness: a result of a real template whose fields all had a mapped    *)
(* key, a value and a compatible kind, one of them refusing the write.       *)
C11_Witness ==
    /\ fillResult # NoResult
    /\ fillResult.mode = "real"
    /\ fillResult.fieldsTotal > 1
    /\ allFillable
    /\ fieldFailed
    /\ fillResult.fieldsProcessed < fillResult.fieldsTotal

(* C12: in real-template mode, a field whose name has no mapping, or whose   *)
(* canonical key has no value in the data, is not written to (no setText,    *)
(* check, uncheck or select); it is one of the fieldsTotal fields and        *)
(* fieldsProcessed stays as it was.                                          *)
C12_UnmappedLeftUntouched ==
    [][(fpc = "fill" /\ fieldsLeft' # fieldsLeft) =>
          LET n == NormalizedName[lastField'.field.name]
          IN  (\/ n \notin DOMAIN mappings
               \/ ~HasValue(enhancedData, mappings[n])) =>
                  /\ lastField'.call = "none"
                  /\ fieldsProcessed' = fieldsProcessed
                  /\ fieldsTotal' = fieldsTotal
                  /\ fieldsLeft' = fieldsLeft - 1
                  /\ fieldsLeft <= fieldsTotal]_vars

(* C12 witness: scenario B, a template whose only field is                   *)
(* "RandomUnmappedField" has been returned with 0 of 1 fields processed.     *)
C12_Witness ==
    /\ fillResult # NoResult
    /\ fillResult.mode = "real"
    /\ lastField # NoField
    /\ lastField.field.name = RandomUnmappedField
    /\ lastField.call = "none"
    /\ fillResult.fieldsTotal = 1
    /\ fillResult.fieldsProcessed = 0

(* C13: a failure on one field is absorbed.  While the loop runs, a step     *)
(* leads to the next field or to the result, never to a rejection; the field *)
(* whose write threw, or whose kind is not supported, is not counted; a      *)
(* field with a mapped present value of a compatible kind whose write does   *)
(* not throw is filled and counted whatever happened to the fields before;   *)
(* the result comes once every field has been visited.                       *)
C13_FieldFailureAbsorbed ==
    [][(fpc = "fill" /\ (fieldsLeft' # fieldsLeft \/ fpc' # fpc)) =>
          /\ fpc' \in {"fill", "returned"}
          /\ fpc' = "fill" =>
                /\ fieldsLeft' = fieldsLeft - 1
                /\ (\/ lastField'.call = "threw"
                    \/ lastField'.field.kind = "PDFDropdown")
                      => fieldsProcessed' = fieldsProcessed
                /\ (Fillable(lastField'.field, enhancedData)
                      /\ ~lastField'.field.throws)
                      => /\ lastField'.call \in {"setText", "check", "uncheck", "select"}
                         /\ fieldsProcessed' = fieldsProcessed + 1
          /\ fpc' = "returned" =>
                /\ fieldsLeft = 0
                /\ fillResult' # NoResult
                /\ fillResult'.fieldsProcessed = fieldsProcessed]_vars

(* C13 witness: the write to the first of two fields threw, the second field *)
(* was filled, and the document was returned with one field processed.       *)
C13_Witness ==
    /\ fillResult # NoResult
    /\ fillResult.mode = "real"
    /\ fieldFailed
    /\ lastField.counted
    /\ fillResult.fieldsTotal = 2
    /\ fillResult.fieldsProcessed = 1

(* C14: when the template repository fails for another reason than          *)
(* not-found (while checking existence or while downloading), fillPDFTemplate*)
(* fails and produces no document; the fallback document is produced only    *)
(* when the repository reports the template as not found.                    *)
C14_RepositoryErrorsPropagate ==
    /\ repository \in {"exists-error", "download-error"} =>
          /\ fpc = "rejected"
          /\ fillResult = NoResult
    /\ (fpc = "draw" \/ fillResult.mode = "fallback") => repository = "not-found"

(* C15: in real-template mode a text field whose name normalizes to "date",  *)
(* "currentdate" or "todaysdate", and that lets itself be written, is set to *)
(* today's date as MM/DD/YY and counted in fieldsProcessed.                  *)
C15_DateReachesTemplate ==
    (/\ lastField # NoField
     /\ NormalizedName[lastField.field.name] \in {"date", "currentdate", "todaysdate"}
     /\ lastField.field.kind = "PDFTextField"
     /\ ~lastField.field.throws) =>
        /\ lastField.call = "setText"
        /\ lastField.arg = formatDateForPDF(Today)
        /\ lastField.counted

(* C16: confidence does not influence real-template filling: what is done to *)
(* a field (the call, its argument, whether it is counted) is what any other *)
(* confidence map would have given for the same field, data and template.    *)
C16_ConfidenceIgnored ==
    lastField # NoField =>
        \A scores \in ConfidenceRecords :
            FieldOutcome(lastField.field, enhancedData, template, scores) = lastField

(* C16 witness: a real template has been returned with a field filled whose  *)
(* key has no entry in the confidence map, other keys having one.            *)
C16_Witness ==
    /\ fillResult # NoResult
    /\ fillResult.mode = "real"
    /\ lastField # NoField
    /\ lastField.counted
    /\ confidenceScores # EmptyMap
    /\ lastField.mappedDataKey \notin DOMAIN confidenceScores

----------------------------------------------------------------------------
(* Claims about the assembler *)

(* The file as the upload route received it, without its number. *)
FileOf(entry) ==
    [mimetype |-> entry.file.mimetype, type |-> entry.file.type,
     embeds |-> entry.file.embeds]

(* The files whose declared media type addImagesToPDF embeds. *)
SupportedFiles == {file \in Files : Supported(file)}

RECURSIVE PagesOfFilled(_)
PagesOfFilled(positions) ==
    IF positions = <<>> THEN 0
    ELSE TemplatePages(selected[Head(positions)]) + PagesOfFilled(Tail(positions))

(* C17: the page count of the combined document is the sum of the page      *)
(* counts of the templates that were filled plus the number of supplied     *)
(* images whose declared media type is JPEG or PNG.                         *)
C17_PageCount ==
    cpc = "returned" =>
        Len(combinedPages) =
            PagesOfFilled(filled)
            + Cardinality({i \in 1..Len(supplied) :
                              FileOf(supplied[i]) \in SupportedFiles})

(* Template pages come first: no image page precedes a template page. *)
TemplatesBeforeImages ==
    \A i, j \in 1..Len(combinedPages) :
        (i < j /\ combinedPages[j].from = "template") =>
            combinedPages[i].from = "template"

(* Template pages are grouped per template, in selection order, each        *)
(* template's pages in its own order.                                       *)
TemplatePagesInOrder ==
    \A i, j \in 1..Len(combinedPages) :
        (/\ i < j
         /\ combinedPages[i].from = "template"
         /\ combinedPages[j].from = "template") =>
            \/ combinedPages[i].position < combinedPages[j].position
            \/ /\ combinedPages[i].position = combinedPages[j].position
               /\ combinedPages[i].page < combinedPages[j].page

(* The number of the upload that was the first of its document type. *)
FirstUploadOf(documentType) ==
    CHOOSE k \in 1..Len(uploadLog) :
        /\ uploadLog[k] = documentType
        /\ \A h \in 1..(k - 1) : uploadLog[h] # documentType

Visited(r) ==
    [i \in 1..Len(fillOutcomes[r]) |->
        remaining[r] + Len(fillOutcomes[r]) - i + 1]

(* The templates of a generate request whose fill fulfilled, in the order   *)
(* of the calls.                                                            *)
FulfilledTemplates(r) ==
    LET positions == FulfilledAmong(fillOutcomes[r], Len(fillOutcomes[r]))
    IN  [i \in 1..Len(positions) |-> Visited(r)[positions[i]]]

C20_EveryImageRecorded ==
    cpc = "returned" =>
        /\ Len(imagesIncluded) = Len(supplied)
        /\ \A i \in 1..Len(supplied) :
              imagesIncluded[i] \in
                  {formatDocumentTypeTitle(supplied[i].documentType),
                   UnsupportedLabel(supplied[i].documentType, FileOf(supplied[i]))}

(* C21: createCombinedPDF reports a failure when nothing was put into the   *)
(* combined document, every fill having failed and every image having been  *)
(* skipped: it never returns a result for a document without content.       *)
C21_EmptyResultFails ==
    ~(cpc = "returned" /\ combinedPages = <<>>)

----------------------------------------------------------------------------
(* The cache: the sweep of storeTempPDF *)

(* C22: storeTempPDF sweeps before it inserts.  From the return of a call   *)
(* on, the map holds no entry created more than one hour before that call,  *)
(* and it holds the entry the call inserted, under the key it returned.     *)
C22_SweepThenInsert ==
    lastStore # NoOp =>
        /\ \A k \in DOMAIN tempPDFStorage :
              tempPDFStorage[k].createdAt >= lastStore.now - TTL
        /\ lastStore.key \in DOMAIN tempPDFStorage
        /\ tempPDFStorage[lastStore.key] =
              Entry(lastStore.fileName, lastStore.buffer, lastStore.now)

(* C22 witness: the last store swept an entry older than one hour, kept a   *)
(* younger one and inserted its own.                                        *)
C22_Witness ==
    /\ lastStore # NoOp
    /\ ~justGot
    /\ \E k \in DOMAIN issued :
          /\ k \notin DOMAIN tempPDFStorage
          /\ issued[k].createdAt + TTL < lastStore.now
    /\ \E k \in DOMAIN tempPDFStorage :
          /\ k # lastStore.key
          /\ tempPDFStorage[k].createdAt < lastStore.now
    /\ lastStore.key \in DOMAIN tempPDFStorage

----------------------------------------------------------------------------
(* The template filler: the rule for each kind of field *)

(* The last field visited had a mapped key and a present value for it. *)
MappedAndPresent ==
    /\ lastField # NoField
    /\ lastField.mappedDataKey # NULL
    /\ HasValue(enhancedData, lastField.mappedDataKey)

(* What the rule says is done to the last field visited, its value given:   *)
(* the call, its argument, and whether the field is counted.                *)
KindRule(value) ==
    LET field == lastField.field
    IN  CASE field.kind = "PDFTextField" ->
               [call |-> "setText", arg |-> value, counted |-> TRUE]
          [] field.kind = "PDFCheckBox" ->
               [call |-> IF Join(ToLowerCase(value))
                               \in {"true", "yes", "1", "checked", "x"}
                         THEN "check" ELSE "uncheck",
                arg |-> <<>>, counted |-> TRUE]
          [] field.kind = "PDFRadioGroup" /\ value \in field.options ->
               [call |-> "select", arg |-> value, counted |-> TRUE]
          [] OTHER -> [call |-> "none", arg |-> <<>>, counted |-> FALSE]

(* What was done to the last field visited. *)
Done == [call |-> lastField.call, arg |-> lastField.arg, counted |-> lastField.counted]

(* C23 as stated: a field with a mapped key and a present value is counted  *)
(* exactly when it is a text field (set to the value), a checkbox (checked  *)
(* when the lower-cased value is true, yes, 1, checked or x, unchecked      *)
(* otherwise) or a radio group with an option equal to the value (that      *)
(* option selected); otherwise it is left as it was and not counted.        *)
C23_KindRule ==
    MappedAndPresent => Done = KindRule(enhancedData[lastField.mappedDataKey])

(* C23 as amended: the rule holds for every field whose write does not      *)
(* throw; a field whose write throws is not counted.                        *)
C23_KindRuleUnlessThrown ==
    MappedAndPresent =>
        IF lastField.call = "threw"
        THEN ~lastField.counted
        ELSE Done = KindRule(enhancedData[lastField.mappedDataKey])

(* C23 witness: a checkbox has been checked for the value "Yes". *)
C23_Witness ==
    /\ MappedAndPresent
    /\ lastField.field.kind = "PDFCheckBox"
    /\ enhancedData[lastField.mappedDataKey] = Yes
    /\ lastField.call = "check"
    /\ lastField.counted
    /\ fpc = "returned"

----------------------------------------------------------------------------
(* The layout of image pages *)

----------------------------------------------------------------------------
(* The alias table *)

(* C25: every alias of the table is its own normalized form, lower-case     *)
(* letters and digits only, so that the entry can be reached: a field named *)
(* like the alias is mapped to the alias's canonical key.                   *)
C25_AliasKeysNormalized ==
    lastField # NoField =>
        /\ \A key \in AliasKeys : NormalizedAlias[key] = Join(key)
        /\ lastField.field.name \in AliasKeys =>
              lastField.mappedDataKey = mappings[Join(lastField.field.name)]

----------------------------------------------------------------------------
(* Concurrent uploads *)

(* The row holds what an upload request contributed. *)
Contributed(u) ==
    /\ DocumentTypeOf(u) \in DOMAIN job.uploadedFiles
    /\ \A k \in DOMAIN extraction[u].data :
          /\ k \in DOMAIN job.extractedData
          /\ job.extractedData[k] = extraction[u].data[k]
    /\ \A k \in DOMAIN extraction[u].confidence :
          /\ k \in DOMAIN job.confidenceScores
          /\ job.confidenceScores[k] = extraction[u].confidence[k]

(* C26: concurrent uploads lose nothing.  Once two upload requests for      *)
(* different document types have both answered with success, the job's      *)
(* uploadedFiles, extractedData and confidenceScores hold the contributions *)
(* of both, and so does the store of the files.                             *)
C26_NoLostUpload ==
    (\A u \in Uploaders : upc[u] = "done" /\ ustatus[u] = 200) =>
        \A u \in Uploaders :
            /\ Contributed(u)
            /\ DocumentTypeOf(u) \in DOMAIN jobFiles

----------------------------------------------------------------------------
(* Assets of a persistent deal *)

(* C27: storage and record agree.  For every asset request that has         *)
(* finished, the object it saved is in object storage if and only if its    *)
(* download URL is in the deal's uploadedAssets.                            *)
C27_StorageMatchesRecord ==
    \A a \in AssetRequests :
        apc[a] = "done" =>
            (a \in objects <=>
                \E i \in 1..Len(uploadedAssets) : uploadedAssets[i] = DownloadUrl(a))

----------------------------------------------------------------------------
(* The page and the combined PDF *)

(* C28: the images appended to the combined PDF are the files the page      *)
(* shows as uploaded.  For a generate request made while no upload is in    *)
(* flight, the files handed to createCombinedPDF are the files shown, so a  *)
(* file the user removed is not among them.                                 *)
C28_ImagesAreFilesShown ==
    (lastGenerate.made /\ lastGenerate.settled) =>
        lastGenerate.images = lastGenerate.page

----------------------------------------------------------------------------
(* The inventory statistics *)

(* The vehicles lookupByStock can return. *)
Retrievable ==
    {lookupByStock(stockNumber) : stockNumber \in StockNumbersAsked} \ {NoItem}

(* C29: after a loadInventoryCSV that resolved, stats.totalVehicles is the  *)
(* number of vehicles lookupByStock can return, the size of the lookup      *)
(* table, also for a file whose rows repeat a stock number.                 *)
C29_TotalIsTableSize ==
    lastLoad = "resolved" =>
        /\ stats.totalVehicles = Cardinality(DOMAIN inventory)
        /\ stats.totalVehicles = Cardinality(Retrievable)

----------------------------------------------------------------------------
(* The status of a vehicle search job *)

(* The status the i-th write replaced. *)
StatusBefore(i) == statusLog[i - 1].status

(* Request r has written 'processing'. *)
MarkedProcessing(r) ==
    \E i \in 1..Len(statusLog) :
        statusLog[i] = [by |-> r, status |-> "processing"]

(* The last write is by request r. *)
LastWriter(r) == statusLog # <<>> /\ statusLog[Len(statusLog)].by = r

(* C30: a search request on an existing job writes 'processing' before it   *)
(* makes an AI call; a request that answered 200 wrote 'completed' and one  *)
(* that answered 500 wrote 'failed', and while its write is the last the    *)
(* job has that status, not 'processing'; 'completed' only replaces         *)
(* 'processing'.                                                            *)
C30_SearchStatus ==
    /\ \A r \in SearchRequests :
          /\ aiCalls[r] > 0 => MarkedProcessing(r)
          /\ (sresponse[r] = 200 /\ LastWriter(r)) =>
                 searchJob.status = "completed"
          /\ (sresponse[r] = 500 /\ searchJob.exists /\ LastWriter(r)) =>
                 searchJob.status = "failed"
    /\ \A i \in 2..Len(statusLog) :
          statusLog[i].status = "completed" => StatusBefore(i) = "processing"

====
